---- MODULE Spec2Model ----
(***************************************************************************)
(* Arbitrage cost/profit model of the agentic_api repository:              *)
(*   agents/simple/arbitrage_detector_agent.py   (ArbitrageDetectorAgent)  *)
(*   agents/simple/investment_optimizer_agent.py (InvestmentOptimizerAgent)*)
(*   agents/simple/base.py                       (BaseAgent result cache)  *)
(*   agents/tools/calculation_tools.py           (FeeCalculationTool)      *)
(*                                                                         *)
(* Python floats are modelled in fixed point:                              *)
(*   prices          in 1/PriceScale USD   (12.45 USD   = 12450)           *)
(*   percentages     in 1/PctScale percent (0.25 %      = 25000)           *)
(*   detector money  in 1/MoneyScale USD   (0.0249 USD  = 249000)          *)
(*   trade amounts   in whole USD                                          *)
(* With these scales  amount * (pct / 100)  is the integer  amount * pct.  *)
(* Quotients that are not exact are rounded to the nearest unit (ties to   *)
(* even), as IEEE division rounds to the nearest double.  round(x, 4) is   *)
(* modelled by Round4Money / Round4Pct, which keep 4 decimals.             *)
(***************************************************************************)
EXTENDS Integers, Sequences, FiniteSets, TLC

VARIABLES
    current_prices,      \* ArbitrageDetectorAgent.current_prices
    cached_gas_price,    \* ArbitrageDetectorAgent._cached_gas_price (octas)
    gas_price_timestamp, \* ArbitrageDetectorAgent._gas_price_timestamp
    last_result,         \* BaseAgent.last_result of the detector
    last_update,         \* BaseAgent.last_update of the detector
    now,                 \* time.time()
    calls,               \* the execute() coroutine of each caller
    probe,               \* a pure function, its arguments and its value
    opt_current_prices,  \* InvestmentOptimizerAgent.current_prices
    opt_last_result,     \* BaseAgent.last_result of the optimizer
    opt_last_update,     \* BaseAgent.last_update of the optimizer
    opt_call,            \* the optimizer's latest execute(): input, result
    stored_market_data,  \* GlobalState.stored_market_data
    last_successful_fetch, \* GlobalState.last_successful_fetch
    fetches              \* the fetch_live_market_data() coroutine of each caller

OptimizerVars ==
    <<opt_current_prices, opt_last_result, opt_last_update, opt_call>>

AppVars == <<stored_market_data, last_successful_fetch, fetches>>

vars == <<current_prices, cached_gas_price, gas_price_timestamp,
          last_result, last_update, now, calls, probe, OptimizerVars,
          AppVars>>

----------------------------------------------------------------------------
(* Fixed-point arithmetic *)

PriceScale == 10^3
PctScale == 10^5
MoneyScale == 10^7

Abs(x) == IF x < 0 THEN -x ELSE x

Min_uncapped(x, y) == x

Min(x, y) == IF x <= y THEN x ELSE y

\* n / d rounded to the nearest integer, ties to even; d # 0
RoundDiv(n, d) ==
    LET nn == IF d < 0 THEN -n ELSE n
        dd == Abs(d)
        q == nn \div dd
        r == nn % dd
    IN  IF 2 * r < dd THEN q
        ELSE IF 2 * r > dd THEN q + 1
        ELSE IF q % 2 = 0 THEN q ELSE q + 1

\* x * y / z rounded, without forming x * y; z > 0, y >= 0
MulDiv(x, y, z) == (x \div z) * y + RoundDiv((x % z) * y, z)

\* round(money, 4): money units -> 1e-4 USD units
Round4Money(m) == RoundDiv(m, MoneyScale \div 10000)

\* round(pct, 4): percent units -> 1e-4 percent units
Round4Pct(p) == RoundDiv(p, PctScale \div 10000)

----------------------------------------------------------------------------
(* Fee schedules: Python dicts keep insertion order, so a schedule is a     *)
(* sequence of <<key, fee percent>> pairs with distinct keys.               *)

DictKeys(d) == [i \in 1..Len(d) |-> d[i][1]]

DictHas(d, k) == \E i \in 1..Len(d) : d[i][1] = k

DictGet(d, k, default) ==
    IF DictHas(d, k)
    THEN d[CHOOSE i \in 1..Len(d) : d[i][1] = k][2]
    ELSE default

SelectKeys(d, excluded) == SelectSeq(DictKeys(d), LAMBDA k : k \notin excluded)

----------------------------------------------------------------------------
(* ArbitrageDetectorAgent: constants set by __init__ *)

SwapGasUnits == 1000

OctasPerApt == 100000000

DefaultGasPrice == 100

GasCacheSeconds == 30

DefaultDexFee == 25000

InitAptPrice == 12450

InitUsdcPrice == 1000

InitUsdtPrice == 999

\* the value -999.0 returned for an invalid price or an impossible route
Sentinel == -999 * PctScale

GenericDexs == {"dex_a", "dex_b"}

GenericKeys == {"Smart Contract", "default", "fee", "from_dex", "to_dex"}

\* marks a key that the input dict does not carry
Absent == "-"

\* set(pair.split("_")) for the pair names of the model
PairTokens(pair) ==
    CASE pair = "usdc_apt" -> {"usdc", "apt"}
      [] pair = "usdt_apt" -> {"usdt", "apt"}
      [] pair = "apt_usdc" -> {"apt", "usdc"}
      [] pair = "apt_usdt" -> {"apt", "usdt"}
      [] pair = "usdc_usdt" -> {"usdc", "usdt"}
      [] pair = "usdt_usdc" -> {"usdt", "usdc"}
      [] OTHER -> {pair}

is_round_trip_on_shared_token(from_pair, to_pair) ==
    PairTokens(from_pair) \cap PairTokens(to_pair) # {}

is_round_trip_same_pair(from_pair, to_pair) ==
    PairTokens(from_pair) = PairTokens(to_pair)

\* dex_price_factors.get(dex, 1.0), in thousandths
DexPriceFactor(dex) ==
    CASE dex = "dex_a" -> 1000
      [] dex = "dex_b" -> 1000
      [] dex = "liquidswap" -> 1000
      [] dex = "pancakeswap" -> 1002
      [] dex = "thalaswap" -> 998
      [] dex = "hippo" -> 1001
      [] OTHER -> 1000

\* abs(from_factor - to_factor) * 100, forced to 0.0 for two generic DEXs
DexSpread(from_dex, to_dex) ==
    IF from_dex \in GenericDexs /\ to_dex \in GenericDexs
    THEN 0
    ELSE Abs(DexPriceFactor(from_dex) - DexPriceFactor(to_dex))
            * (PctScale \div 10)

\* the same relative to the other price
\* abs(x - y) / x * 100 in percent units, times tenths / 10.  For the two
\* cross rates apt/p and apt/q the APT price cancels:
\* abs(apt/p - apt/q) / (apt/p) = abs(q - p) / q.
RelDiffPct_of_other(x, y, tenths) ==
    MulDiv(10 * tenths * PctScale, Abs(x - y), y)

RelDiffPct(x, y, tenths) ==
    MulDiv(10 * tenths * PctScale, Abs(x - y), x)

\* (apt_price / quote_price if quote_price > 0 else 0) == 0
CrossRateIsZero(apt_price, quote_price) ==
    ~(quote_price > 0) \/ apt_price = 0

calculate_price_difference(prices, from_pair, to_pair, from_dex, to_dex) ==
    LET apt_price == prices.apt
        usdc_price == prices.usdc
        usdt_price == prices.usdt
        dex_spread == DexSpread(from_dex, to_dex)
    IN  IF \E t \in DOMAIN prices : prices[t] <= 0
        THEN Sentinel
        ELSE IF /\ from_dex \in GenericDexs
                /\ to_dex \in GenericDexs
                /\ is_round_trip_same_pair(from_pair, to_pair)
        THEN Sentinel
        ELSE IF from_pair = "usdc_apt" /\ to_pair = "usdt_apt"
        THEN \* rate_diff = abs(apt/usdc - apt/usdt) / (apt/usdc) * 100
             IF \/ CrossRateIsZero(apt_price, usdc_price)
                \/ CrossRateIsZero(apt_price, usdt_price)
             THEN Sentinel
             ELSE Min(60000 + RelDiffPct(usdt_price, usdc_price, 1)
                            + dex_spread, 300000)
        ELSE IF from_pair = "usdt_apt" /\ to_pair = "usdc_apt"
        THEN IF \/ CrossRateIsZero(apt_price, usdt_price)
                \/ CrossRateIsZero(apt_price, usdc_price)
             THEN Sentinel
             ELSE Min(50000 + RelDiffPct(usdc_price, usdt_price, 1)
                            + dex_spread, 300000)
        ELSE IF from_pair = "apt_usdc" /\ to_pair = "apt_usdt"
        THEN IF usdc_price = 0 \/ usdt_price = 0
             THEN Sentinel
             ELSE Min(30000 + RelDiffPct(usdc_price, usdt_price, 10)
                            + dex_spread, 200000)
        ELSE IF from_pair = "apt_usdt" /\ to_pair = "apt_usdc"
        THEN IF usdc_price = 0 \/ usdt_price = 0
             THEN Sentinel
             ELSE Min(40000 + RelDiffPct(usdt_price, usdc_price, 10)
                            + dex_spread, 200000)
        ELSE IF apt_price = 0 \/ usdc_price = 0 \/ usdt_price = 0
        THEN Sentinel
        ELSE IF dex_spread = 0 THEN 5000
        ELSE 20000 + dex_spread

\* the bands with a top band cheaper than the one below it
estimate_slippage_falling(trade_amount) ==
    IF trade_amount < 1000 THEN 2000
    ELSE IF trade_amount < 5000 THEN 5000
    ELSE IF trade_amount < 20000 THEN 15000
    ELSE 3000

estimate_slippage(trade_amount) ==
    IF trade_amount < 1000 THEN 2000
    ELSE IF trade_amount < 5000 THEN 5000
    ELSE IF trade_amount < 20000 THEN 15000
    ELSE 30000

\* trade_amount * (slippage_percent / 100), in money units (lines 181-182)
slippage_cost_usd(trade_amount) ==
    trade_amount * estimate_slippage(trade_amount)

\* the tiers with inclusive margin thresholds
assess_risk_level_inclusive(profit_margin, trade_amount) ==
    IF profit_margin >= 100000 /\ trade_amount < 10000 THEN "LOW"
    ELSE IF profit_margin >= 50000 /\ trade_amount < 50000 THEN "MEDIUM"
    ELSE IF profit_margin >= 20000 THEN "HIGH"
    ELSE "VERY_HIGH"

assess_risk_level(profit_margin, trade_amount) ==
    IF profit_margin > 100000 /\ trade_amount < 10000 THEN "LOW"
    ELSE IF profit_margin > 50000 /\ trade_amount < 50000 THEN "MEDIUM"
    ELSE IF profit_margin > 20000 THEN "HIGH"
    ELSE "VERY_HIGH"

\* ProfitabilityAnalysisTool._assess_risk; risk_factors is not read
tool_assess_risk(profit_margin, trade_amount) ==
    IF profit_margin > 200000 /\ trade_amount < 5000 THEN "LOW"
    ELSE IF profit_margin > 100000 /\ trade_amount < 20000 THEN "MEDIUM"
    ELSE IF profit_margin > 50000 THEN "HIGH"
    ELSE "VERY_HIGH"

\* available_dexs as built at the top of each detector handler
available_dexs(custom_dex_fees) ==
    LET named == SelectKeys(custom_dex_fees, GenericKeys)
    IN  IF Len(custom_dex_fees) = 0 THEN << >>
        ELSE IF Len(named) = 0 /\ DictHas(custom_dex_fees, "Smart Contract")
        THEN <<"dex_a", "dex_b">>
        ELSE named

\* input_data.get("from_dex", available_dexs[0] if ... else "dex_a")
route_from_dex(input) ==
    LET av == available_dexs(input.custom_dex_fees)
    IN  IF input.from_dex # Absent THEN input.from_dex
        ELSE IF Len(av) > 0 THEN av[1] ELSE "dex_a"

\* input_data.get("to_dex", available_dexs[1] if ... else "dex_b")
route_to_dex(input) ==
    LET av == available_dexs(input.custom_dex_fees)
    IN  IF input.to_dex # Absent THEN input.to_dex
        ELSE IF Len(av) > 1 THEN av[2] ELSE "dex_b"

\* custom.get("default") or custom.get("fee") or list(custom.values())[0]
GenericFee(custom_dex_fees) ==
    IF DictGet(custom_dex_fees, "default", 0) # 0
    THEN DictGet(custom_dex_fees, "default", 0)
    ELSE IF DictGet(custom_dex_fees, "fee", 0) # 0
    THEN DictGet(custom_dex_fees, "fee", 0)
    ELSE custom_dex_fees[1][2]

\* <<from_dex_fee, to_dex_fee>> of _calculate_charges
dex_fee_percents(custom_dex_fees, from_dex, to_dex) ==
    IF Len(custom_dex_fees) > 0
    THEN IF Len(SelectKeys(custom_dex_fees, GenericKeys)) > 0
         THEN <<DictGet(custom_dex_fees, from_dex, DefaultDexFee),
                DictGet(custom_dex_fees, to_dex, DefaultDexFee)>>
         ELSE IF DictHas(custom_dex_fees, "Smart Contract")
         THEN <<DictGet(custom_dex_fees, "Smart Contract", 0),
                DictGet(custom_dex_fees, "Smart Contract", 0)>>
         ELSE <<GenericFee(custom_dex_fees), GenericFee(custom_dex_fees)>>
    ELSE <<0, 0>>

----------------------------------------------------------------------------
(* FeeCalculationTool *)

\* default_fees.get(dex_name, 0.25)
ToolDefaultFee(dex_name) ==
    CASE dex_name = "pancakeswap" -> 25000
      [] dex_name = "liquidswap" -> 30000
      [] dex_name = "thalaswap" -> 20000
      [] dex_name = "hippo" -> 30000
      [] OTHER -> 25000

\* "from" in dex_name, for the DEX names of the model
ContainsFrom(dex_name) == dex_name \in {"from_dex"}

get_fee_rate(custom_fees, dex_name) ==
    LET possible_keys == <<dex_name, "Smart Contract", "default", "fee",
                           IF ContainsFrom(dex_name) THEN "from_dex"
                                                     ELSE "to_dex">>
        hits == {i \in 1..5 : DictHas(custom_fees, possible_keys[i])}
    IN  IF Len(custom_fees) = 0 THEN 0
        ELSE IF hits # {}
        THEN DictGet(custom_fees,
                     possible_keys[CHOOSE i \in hits :
                                       \A j \in hits : i <= j], 0)
        ELSE IF Len(custom_fees) = 1 THEN custom_fees[1][2]
        ELSE ToolDefaultFee(dex_name)

----------------------------------------------------------------------------
(* ArbitrageDetectorAgent: the three handlers.  A handler yields           *)
(* [result, cached]: the dict it returns and the sequence of dicts it      *)
(* passed to cache_result, in call order.  The "timestamp" entry of the     *)
(* result dicts is left out.                                                *)

NoRoute == [absent |-> TRUE]

NoCharges == [absent |-> TRUE]

NoProfitability == [absent |-> TRUE]

NoSearch == [absent |-> TRUE]

NoPrices == [absent |-> TRUE]

NoResult == [absent |-> TRUE]

NoInput == [absent |-> TRUE]

ErrorResult(msg) ==
    [status |-> "error", error |-> msg, route |-> NoRoute,
     charges |-> NoCharges, profitability |-> NoProfitability,
     recommendation |-> Absent, risk_level |-> Absent,
     search |-> NoSearch, current_prices |-> NoPrices, message |-> Absent]

\* gas_units * gas_unit_price / 100_000_000, kept in octas
calculate_gas_cost_apt(operation, gas_unit_price) ==
    (IF operation = "swap" THEN SwapGasUnits
     ELSE IF operation \in {"add_liquidity", "remove_liquidity"}
     THEN 2000 ELSE 1000) * gas_unit_price

\* total_gas_cost_apt * apt_price, in money units
GasCostUsd(total_gas_octas, apt_price) ==
    MulDiv(total_gas_octas, apt_price,
           (OctasPerApt \div MoneyScale) * PriceScale)

\* the sum without the slippage cost
TotalCharges_without_slippage(total_trading_fees, total_gas_cost_usd, slippage_cost) ==
    total_trading_fees + total_gas_cost_usd

\* trading fees + gas + slippage (line 185)
TotalCharges(total_trading_fees, total_gas_cost_usd, slippage_cost) ==
    total_trading_fees + total_gas_cost_usd + slippage_cost

\* the percentage taken from the rounded total
CostPercentage_of_rounded_total(total_charges, trade_amount) ==
    RoundDiv(Round4Money(total_charges) * (MoneyScale \div 10000),
             trade_amount * (PctScale \div 10000))

\* round((total_charges / trade_amount) * 100, 4), in 1e-4 percent
CostPercentage(total_charges, trade_amount) ==
    RoundDiv(total_charges, trade_amount * (PctScale \div 10000))

Route(input) ==
    [from_pair |-> input.from_pair, to_pair |-> input.to_pair,
     from_dex |-> route_from_dex(input), to_dex |-> route_to_dex(input),
     trade_amount |-> input.trade_amount]

\* lines 166-233 of _calculate_charges: the dict it builds once the two fee
\* percents are resolved
charges_dict(input, fees, apt_price, gas_unit_price, gas_source) ==
    LET trade_amount == input.trade_amount
        from_dex_fee == fees[1]
        to_dex_fee == fees[2]
        swap_gas_apt == calculate_gas_cost_apt("swap", gas_unit_price)
        total_gas_cost_apt == swap_gas_apt * 2
        total_gas_cost_usd == GasCostUsd(total_gas_cost_apt, apt_price)
        from_fee_amount == trade_amount * from_dex_fee
        to_fee_amount == trade_amount * to_dex_fee
        total_trading_fees == from_fee_amount + to_fee_amount
        slippage_percent == estimate_slippage(trade_amount)
        slippage_cost == slippage_cost_usd(trade_amount)
        total_charges == TotalCharges(total_trading_fees, total_gas_cost_usd,
                                      slippage_cost)
    IN  [status |-> "success", error |-> Absent,
         route |-> Route(input),
         charges |->
           [dex_fees |->
              [from_dex_fee_percent |-> from_dex_fee,
               to_dex_fee_percent |-> to_dex_fee,
               from_fee_amount_usd |-> Round4Money(from_fee_amount),
               to_fee_amount_usd |-> Round4Money(to_fee_amount),
               total_trading_fees_usd |-> Round4Money(total_trading_fees),
               fees_applied |-> (from_dex_fee > 0 \/ to_dex_fee > 0)],
            gas_fees |->
              [gas_unit_price_octas |-> gas_unit_price,
               gas_units_per_swap |-> SwapGasUnits,
               total_gas_cost_apt |->
                   RoundDiv(total_gas_cost_apt, OctasPerApt \div 1000000),
               total_gas_cost_usd |-> Round4Money(total_gas_cost_usd),
               operations |-> 2,
               apt_price_used |-> apt_price,
               gas_source |-> gas_source],
            slippage |->
              [estimated_slippage_percent |-> slippage_percent,
               estimated_slippage_cost_usd |-> Round4Money(slippage_cost)],
            total_costs |->
              [total_fees_usd |-> Round4Money(total_charges),
               cost_percentage |->
                   CostPercentage(total_charges, trade_amount)],
            summary |->
              [all_charges_summed |-> Round4Money(total_charges),
               trading_fees |-> Round4Money(total_trading_fees),
               gas_costs |-> Round4Money(total_gas_cost_usd),
               slippage |-> Round4Money(slippage_cost),
               percentage_of_investment |->
                   CostPercentage(total_charges, trade_amount)]],
         profitability |-> NoProfitability,
         recommendation |-> Absent, risk_level |-> Absent,
         search |-> NoSearch, current_prices |-> NoPrices,
         message |-> Absent]

\* the try / except of _calculate_charges around the dict and its caching
charges_outcome(trade_amount, result) ==
    IF trade_amount = 0
    THEN \* ZeroDivisionError in total_charges / trade_amount
         [result |-> ErrorResult("Charge calculation failed: division by zero"),
          cached |-> << >>]
    ELSE [result |-> result, cached |-> <<result>>]

calculate_charges(input, prices, gas_price, gas_ts, t) ==
    charges_outcome(input.trade_amount,
        charges_dict(input,
            dex_fee_percents(input.custom_dex_fees, route_from_dex(input),
                             route_to_dex(input)),
            prices.apt, gas_price,
            IF t - gas_ts < 60 THEN "live" ELSE "cached"))

ImpossibleMsg == "Impossible arbitrage scenario detected. Cannot perform round-trip arbitrage on identical DEXs or with invalid token prices."

\* the recommendation with the LOW tier's margin threshold
Recommendation_above_one_percent(is_profitable, profit_margin) ==
    IF is_profitable /\ profit_margin > 100000 THEN "EXECUTE" ELSE "SKIP"

\* the recommendation with an inclusive margin threshold
Recommendation_inclusive(is_profitable, profit_margin) ==
    IF is_profitable /\ profit_margin >= 50000 THEN "EXECUTE" ELSE "SKIP"

\* "EXECUTE" if is_profitable and profit_margin > 0.5 else "SKIP"
Recommendation(is_profitable, profit_margin) ==
    IF is_profitable /\ profit_margin > 50000 THEN "EXECUTE" ELSE "SKIP"

\* round((net_profit / trade_amount) * 100, 4) if trade_amount > 0 else 0
MarginRound4(net_profit, trade_amount) ==
    IF trade_amount > 0
    THEN RoundDiv(net_profit, trade_amount * (PctScale \div 10000))
    ELSE 0

\* self.cache_result(result); return result
cache_and_return(cached, result) ==
    [result |-> result, cached |-> cached \o <<result>>]

\* lines 266-315 of _check_profitability, given the outcome ch of
\* _calculate_charges and the spread of the route
profitability_outcome(input, prices, ch, price_difference) ==
    LET charges_result == ch.result
        trade_amount == input.trade_amount
        gross_profit == trade_amount * price_difference
        \* total_fees_usd is the rounded figure of the charges dict
        total_costs == charges_result.charges.total_costs.total_fees_usd
                          * (MoneyScale \div 10000)
        net_profit == gross_profit - total_costs
        is_profitable == net_profit > 0
        profit_margin == IF trade_amount > 0
                         THEN RoundDiv(net_profit, trade_amount) ELSE 0
    IN  IF charges_result.status # "success"
        THEN ch
        ELSE IF price_difference = Sentinel
        THEN [result |->
                [ErrorResult(ImpossibleMsg) EXCEPT
                    !.current_prices = prices,
                    !.route = Route(input)],
              cached |-> ch.cached]
        ELSE cache_and_return(ch.cached,
                [status |-> "success", error |-> Absent,
                 route |-> charges_result.route,
                 charges |-> charges_result.charges,
                 profitability |->
                   [is_profitable |-> is_profitable,
                    price_difference_percent |-> Round4Pct(price_difference),
                    gross_profit_usd |-> Round4Money(gross_profit),
                    total_costs_usd |-> Round4Money(total_costs),
                    net_profit_usd |-> Round4Money(net_profit),
                    profit_margin_percent |->
                        MarginRound4(net_profit, trade_amount),
                    roi_percent |-> MarginRound4(net_profit, trade_amount)],
                 recommendation |->
                     Recommendation(is_profitable, profit_margin),
                 risk_level |-> assess_risk_level(profit_margin, trade_amount),
                 search |-> NoSearch, current_prices |-> NoPrices,
                 message |-> Absent])

check_profitability(input, prices, gas_price, gas_ts, t) ==
    profitability_outcome(input, prices,
        calculate_charges(input, prices, gas_price, gas_ts, t),
        calculate_price_difference(prices, input.from_pair, input.to_pair,
                                   route_from_dex(input), route_to_dex(input)))

pair_combinations ==
    << <<"usdc_apt", "usdt_apt">>, <<"usdt_apt", "usdc_apt">>,
       <<"apt_usdc", "apt_usdt">>, <<"apt_usdt", "apt_usdc">> >>

\* the nested loops without the from_dex != to_dex test
RECURSIVE LoopRoutes_with_self_routes(_, _)
LoopRoutes_with_self_routes(dexs, k) ==
    LET n == Len(dexs)
        p == k \div (n * n)
        f == (k % (n * n)) \div n
        g == k % n
    IN  IF k >= Len(pair_combinations) * n * n THEN << >>
        ELSE << [from_pair |-> pair_combinations[p + 1][1],
                 to_pair |-> pair_combinations[p + 1][2],
                 from_dex |-> dexs[f + 1],
                 to_dex |-> dexs[g + 1]] >>
             \o LoopRoutes_with_self_routes(dexs, k + 1)

\* the (pair, from_dex, to_dex) triples in the order of the nested loops
RECURSIVE LoopRoutes(_, _)
LoopRoutes(dexs, k) ==
    \* k counts 0 .. 4 * n * n - 1 over (pair, from index, to index)
    LET n == Len(dexs)
        p == k \div (n * n)
        f == (k % (n * n)) \div n
        g == k % n
    IN  IF k >= Len(pair_combinations) * n * n THEN << >>
        ELSE (IF dexs[f + 1] # dexs[g + 1]
              THEN << [from_pair |-> pair_combinations[p + 1][1],
                       to_pair |-> pair_combinations[p + 1][2],
                       from_dex |-> dexs[f + 1],
                       to_dex |-> dexs[g + 1]] >>
              ELSE << >>) \o LoopRoutes(dexs, k + 1)

\* the sort without reverse=True: ascending by margin
RECURSIVE InsertByMargin_ascending(_, _)
InsertByMargin_ascending(sorted, o) ==
    IF sorted = << >> THEN <<o>>
    ELSE IF Head(sorted).profitability.profit_margin_percent
              <= o.profitability.profit_margin_percent
    THEN <<Head(sorted)>> \o InsertByMargin_ascending(Tail(sorted), o)
    ELSE <<o>> \o sorted

\* list.sort(key=profit_margin_percent, reverse=True): stable, descending
RECURSIVE InsertByMargin(_, _)
InsertByMargin(sorted, o) ==
    IF sorted = << >> THEN <<o>>
    ELSE IF Head(sorted).profitability.profit_margin_percent
              >= o.profitability.profit_margin_percent
    THEN <<Head(sorted)>> \o InsertByMargin(Tail(sorted), o)
    ELSE <<o>> \o sorted

RECURSIVE SortByMargin(_)
SortByMargin(os) ==
    IF os = << >> THEN << >>
    ELSE InsertByMargin(SortByMargin(SubSeq(os, 1, Len(os) - 1)), os[Len(os)])

RECURSIVE SumMargins(_)
SumMargins(os) ==
    IF os = << >> THEN 0
    ELSE Head(os).profitability.profit_margin_percent + SumMargins(Tail(os))

TopN == 10

\* the opportunities list before sorting (lines 384-394)
opportunities_of(evals) ==
    LET kept == SelectSeq(evals, LAMBDA e :
                    /\ e.result.status = "success"
                    /\ e.result.profitability.is_profitable)
    IN  [i \in 1..Len(kept) |->
            [route |-> kept[i].result.route,
             profitability |-> kept[i].result.profitability,
             recommendation |-> kept[i].result.recommendation,
             risk_level |-> kept[i].result.risk_level]]

\* every dict the route evaluations passed to cache_result, in call order
RECURSIVE CachedBy(_)
CachedBy(evals) ==
    IF evals = << >> THEN << >>
    ELSE Head(evals).cached \o CachedBy(Tail(evals))

\* the result dict of lines 405-424
search_result(prices, dexs, opportunities, top_opportunities) ==
    [ErrorResult(Absent) EXCEPT
       !.status = "success",
       !.current_prices = prices,
       !.search =
         [pairs_checked |->
              Len(pair_combinations) * Len(dexs) * (Len(dexs) - 1),
          available_dexs |-> dexs,
          total_found |-> Len(opportunities),
          profitable_count |->
              Len(SelectSeq(opportunities,
                      LAMBDA o : o.profitability.is_profitable)),
          top_opportunities |-> top_opportunities,
          best_profit_margin |->
              IF top_opportunities # << >>
              THEN top_opportunities[1].profitability.profit_margin_percent
              ELSE 0,
          average_profit_margin |->
              IF top_opportunities # << >>
              THEN RoundDiv(SumMargins(top_opportunities),
                            Len(top_opportunities))
              ELSE 0,
          recommended_trades |->
              Len(SelectSeq(top_opportunities,
                      LAMBDA o : o.recommendation = "EXECUTE"))]]

\* lines 396-403: sort by margin, keep the first ten
sorted_search_result(prices, dexs, opportunities) ==
    search_result(prices, dexs, opportunities,
                  SubSeq(opportunities, 1, Min(TopN, Len(opportunities))))

\* the empty result without its guidance message
empty_search_result_without_message(prices) ==
    [ErrorResult(Absent) EXCEPT
       !.status = "success",
       !.current_prices = prices,
       !.search =
         [pairs_checked |-> 0, available_dexs |-> << >>,
          total_found |-> 0, profitable_count |-> 0,
          top_opportunities |-> << >>,
          best_profit_margin |-> 0, average_profit_margin |-> 0,
          recommended_trades |-> 0]]

\* the result dict returned when the input names no DEX (lines 334-354)
empty_search_result(prices) ==
    [ErrorResult(Absent) EXCEPT
       !.status = "success",
       !.current_prices = prices,
       !.search =
         [pairs_checked |-> 0, available_dexs |-> << >>,
          total_found |-> 0, profitable_count |-> 0,
          top_opportunities |-> << >>,
          best_profit_margin |-> 0, average_profit_margin |-> 0,
          recommended_trades |-> 0],
       !.message = "No DEXs provided in input. Please specify DEX fees to analyze opportunities."]

\* one pass of the loop body: the route it was entered with and what
\* _check_profitability returned and cached for it
evaluation(route, outcome) ==
    [route |-> route, result |-> outcome.result, cached |-> outcome.cached]

\* the nested loops of lines 367-382: _check_profitability on every route
route_evaluations(input, routes, prices, gas_price, gas_ts, t) ==
    [i \in 1..Len(routes) |->
        evaluation(routes[i],
            check_profitability(
                [input EXCEPT !.action = "isprofitable",
                              !.from_pair = routes[i].from_pair,
                              !.to_pair = routes[i].to_pair,
                              !.from_dex = routes[i].from_dex,
                              !.to_dex = routes[i].to_dex],
                prices, gas_price, gas_ts, t))]

\* the handler's outcome together with the evaluations it made
with_evaluations(outcome, evals) ==
    [result |-> outcome.result, cached |-> outcome.cached,
     evaluations |-> evals]

possibilities_outcome(prices, dexs, evals) ==
    IF dexs = << >>
    THEN [result |-> empty_search_result(prices), cached |-> << >>,
          evaluations |-> << >>]
    ELSE with_evaluations(
             cache_and_return(CachedBy(evals),
                 sorted_search_result(prices, dexs,
                                      SortByMargin(opportunities_of(evals)))),
             evals)

routes_outcome(input, prices, dexs, gas_price, gas_ts, t) ==
    possibilities_outcome(prices, dexs,
        route_evaluations(input, LoopRoutes(dexs, 0), prices, gas_price,
                          gas_ts, t))

find_possibilities(input, prices, gas_price, gas_ts, t) ==
    routes_outcome(input, prices, available_dexs(input.custom_dex_fees),
                   gas_price, gas_ts, t)

\* the dispatch on action in execute (lines 96-103)
Dispatch(input, prices, gas_price, gas_ts, t) ==
    IF input.action = "getcharges"
    THEN calculate_charges(input, prices, gas_price, gas_ts, t)
    ELSE IF input.action = "isprofitable"
    THEN check_profitability(input, prices, gas_price, gas_ts, t)
    ELSE IF input.action = "possibilities"
    THEN find_possibilities(input, prices, gas_price, gas_ts, t)
    ELSE [result |-> ErrorResult("Unknown action"), cached |-> << >>]

----------------------------------------------------------------------------
(* InvestmentOptimizerAgent.  Investment sizes are whole APT, the trade     *)
(* amount is in 1/PriceScale USD and optimizer money in 1/OptMoneyScale USD *)

OptMoneyScale == 10^5

OptDefaultFromFee == 25000

OptDefaultToFee == 30000

\* amount * (pct / 100): trade amount in 1/PriceScale USD, result in
\* optimizer money units, computed in two parts to stay within 32 bits
PctOf(usd, pct) ==
    MulDiv(usd, pct \div 1000, 100) + MulDiv(usd, pct % 1000, 100000)

opt_calculate_price_difference(from_token, to_token) ==
    IF from_token = "usdc" /\ to_token = "usdt" THEN 120000
    ELSE IF from_token = "usdt" /\ to_token = "usdc" THEN 110000
    ELSE IF "apt" \in {from_token, to_token} THEN 90000
    ELSE 70000

estimate_slippage_for_amount(trade_amount_usd) ==
    IF trade_amount_usd < 1000 * PriceScale THEN 2000
    ELSE IF trade_amount_usd < 5000 * PriceScale THEN 5000
    ELSE IF trade_amount_usd < 25000 * PriceScale THEN 15000
    ELSE IF trade_amount_usd < 100000 * PriceScale THEN 35000
    ELSE 75000

\* trade_amount_usd * (slippage_percent / 100) (lines 177-178)
opt_slippage_cost_usd(trade_amount_usd) ==
    PctOf(trade_amount_usd, estimate_slippage_for_amount(trade_amount_usd))

\* the optimizer's tiers with the thresholds of the analysis tool
opt_assess_risk_level_as_tool(profit_margin, trade_amount_usd) ==
    IF profit_margin > 200000 /\ trade_amount_usd < 5000 * PriceScale
    THEN "LOW"
    ELSE IF profit_margin > 100000 /\ trade_amount_usd < 20000 * PriceScale
    THEN "MEDIUM"
    ELSE IF profit_margin > 50000 THEN "HIGH"
    ELSE "VERY_HIGH"

opt_assess_risk_level(profit_margin, trade_amount_usd) ==
    IF profit_margin > 100000 /\ trade_amount_usd < 10000 * PriceScale
    THEN "LOW"
    ELSE IF profit_margin > 50000 /\ trade_amount_usd < 50000 * PriceScale
    THEN "MEDIUM"
    ELSE IF profit_margin > 20000 THEN "HIGH"
    ELSE "VERY_HIGH"

\* custom_dex_fees.get("from_dex", self.dex_fees.get("pancakeswap", 0.25))
opt_from_dex_fee(custom_dex_fees) ==
    DictGet(custom_dex_fees, "from_dex", OptDefaultFromFee)

\* custom_dex_fees.get("to_dex", self.dex_fees.get("liquidswap", 0.30))
opt_to_dex_fee(custom_dex_fees) ==
    DictGet(custom_dex_fees, "to_dex", OptDefaultToFee)

calculate_profit_for_amount(apt_amount, trade_amount_usd, from_token, to_token, custom_dex_fees, prices) ==
    LET from_dex_fee == opt_from_dex_fee(custom_dex_fees)
        to_dex_fee == opt_to_dex_fee(custom_dex_fees)
        from_fee_amount == PctOf(trade_amount_usd, from_dex_fee)
        to_fee_amount == PctOf(trade_amount_usd, to_dex_fee)
        total_trading_fees == from_fee_amount + to_fee_amount
        \* gas_costs["swap"] * 2 = 0.002 APT, times the APT price
        total_gas_cost_usd ==
            RoundDiv(2 * prices.apt, (1000 * PriceScale) \div OptMoneyScale)
        slippage_percent == estimate_slippage_for_amount(trade_amount_usd)
        slippage_cost == opt_slippage_cost_usd(trade_amount_usd)
        total_costs == total_trading_fees + total_gas_cost_usd + slippage_cost
        price_difference == opt_calculate_price_difference(from_token,
                                                           to_token)
        gross_profit == PctOf(trade_amount_usd, price_difference)
        net_profit == gross_profit - total_costs
        is_profitable == net_profit > 0
        \* (net_profit / trade_amount_usd) * 100: the percentages of the
        \* fees, the slippage and the spread cancel the trade amount, and
        \* the gas cost is 0.002 APT, that is 0.2 * apt price / trade amount %
        profit_margin ==
            IF trade_amount_usd > 0
            THEN price_difference - from_dex_fee - to_dex_fee
                   - slippage_percent
                   - RoundDiv((PctScale \div 5) * prices.apt, trade_amount_usd)
            ELSE 0
    IN  [is_profitable |-> is_profitable,
         net_profit_usd |-> net_profit,
         profit_margin_percent |-> profit_margin,
         roi_percent |-> profit_margin,
         total_costs_usd |-> total_costs,
         risk_level |-> opt_assess_risk_level(profit_margin,
                                              trade_amount_usd),
         breakdown |->
           [gross_profit |-> gross_profit,
            trading_fees |-> total_trading_fees,
            gas_costs |-> total_gas_cost_usd,
            slippage_costs |-> slippage_cost,
            price_difference_percent |-> price_difference]]

NoAnalysis == [absent |-> TRUE]

OptErrorResult(msg) ==
    [status |-> "error", error |-> msg, analysis |-> NoAnalysis,
     cost_breakdown |-> NoAnalysis, recommendation |-> Absent]

\* the dict _analyze_specific_amount builds from profit_data
analysis_result(apt_amount, trade_amount_usd, profit_data) ==
    [status |-> "success", error |-> Absent,
     analysis |->
       [apt_investment |-> apt_amount,
        usd_investment |-> trade_amount_usd,
        is_profitable |-> profit_data.is_profitable,
        net_profit_usd |-> profit_data.net_profit_usd,
        profit_margin_percent |-> profit_data.profit_margin_percent,
        roi_percent |-> profit_data.roi_percent,
        risk_level |-> profit_data.risk_level,
        total_costs_usd |-> profit_data.total_costs_usd],
     cost_breakdown |-> profit_data.breakdown,
     recommendation |->
         Recommendation(profit_data.is_profitable,
                        profit_data.profit_margin_percent)]

analyze_specific_amount(input, prices) ==
    analysis_result(input.apt_amount, input.apt_amount * prices.apt,
        calculate_profit_for_amount(input.apt_amount,
            input.apt_amount * prices.apt, input.from_token, input.to_token,
            input.dex_fees, prices))

\* self.apt_test_ranges (lines 16-25)
apt_test_ranges ==
    << <<1, 5, 10, 25, 50>>, <<100, 250, 500, 750, 1000>>,
       <<1500, 2000, 3000, 5000, 7500>>,
       <<10000, 15000, 20000, 30000, 50000>> >>

\* the ladder filtered with amt < max_investment_apt
all_amounts_below(max_investment_apt) ==
    SelectSeq(apt_test_ranges[1] \o apt_test_ranges[2]
                \o apt_test_ranges[3] \o apt_test_ranges[4],
              LAMBDA amt : amt < max_investment_apt)

\* lines 96-98: every group's amounts with amt <= max_investment_apt
all_amounts(max_investment_apt) ==
    SelectSeq(apt_test_ranges[1] \o apt_test_ranges[2]
                \o apt_test_ranges[3] \o apt_test_ranges[4],
              LAMBDA amt : amt <= max_investment_apt)

\* sorted(list(S)) for a set of numbers
RECURSIVE SortedAmounts(_)
SortedAmounts(S) ==
    IF S = {} THEN << >>
    ELSE LET m == CHOOSE x \in S : \A y \in S : x <= y
         IN  <<m>> \o SortedAmounts(S \ {m})

\* test_amounts = sorted(list(set(all_amounts)))
test_amounts(amounts) ==
    SortedAmounts({amounts[i] : i \in 1..Len(amounts)})

\* the loop of lines 103-110: one _calculate_profit_for_amount per amount
amount_evaluations(amounts, input, prices) ==
    [i \in 1..Len(amounts) |->
        [apt_amount |-> amounts[i],
         trade_amount_usd |-> amounts[i] * prices.apt,
         profit_data |->
             calculate_profit_for_amount(amounts[i], amounts[i] * prices.apt,
                 input.from_token, input.to_token, input.dex_fees, prices)]]

\* lines 112-121: the profitable amounts, in the order tested
optimization_results(evals) ==
    LET kept == SelectSeq(evals, LAMBDA e : e.profit_data.is_profitable)
    IN  [i \in 1..Len(kept) |->
            [apt_investment |-> kept[i].apt_amount,
             usd_investment |-> kept[i].trade_amount_usd,
             net_profit_usd |-> kept[i].profit_data.net_profit_usd,
             profit_margin_percent |->
                 kept[i].profit_data.profit_margin_percent,
             roi_percent |-> kept[i].profit_data.roi_percent,
             total_costs_usd |-> kept[i].profit_data.total_costs_usd,
             risk_level |-> kept[i].profit_data.risk_level]]

\* the sort without reverse=True
RECURSIVE opt_insert_by_margin_ascending(_, _)
opt_insert_by_margin_ascending(sorted, o) ==
    IF sorted = << >> THEN <<o>>
    ELSE IF Head(sorted).profit_margin_percent <= o.profit_margin_percent
    THEN <<Head(sorted)>> \o opt_insert_by_margin_ascending(Tail(sorted), o)
    ELSE <<o>> \o sorted

\* optimization_results.sort(key=profit_margin_percent, reverse=True)
RECURSIVE opt_insert_by_margin(_, _)
opt_insert_by_margin(sorted, o) ==
    IF sorted = << >> THEN <<o>>
    ELSE IF Head(sorted).profit_margin_percent >= o.profit_margin_percent
    THEN <<Head(sorted)>> \o opt_insert_by_margin(Tail(sorted), o)
    ELSE <<o>> \o sorted

RECURSIVE opt_sort_by_margin(_)
opt_sort_by_margin(rs) ==
    IF rs = << >> THEN << >>
    ELSE opt_insert_by_margin(opt_sort_by_margin(SubSeq(rs, 1, Len(rs) - 1)),
                              rs[Len(rs)])

\* risk_scores.get(risk_level, 4)
risk_score(risk_level) ==
    IF risk_level = "LOW" THEN 1
    ELSE IF risk_level = "MEDIUM" THEN 2
    ELSE IF risk_level = "HIGH" THEN 3
    ELSE 4

\* the common multiple of the risk scores: scores are kept in twelfths
ScoreScale == 12

\* profit_margin / risk_score, in 1/ScoreScale of a percent unit
combined_score(r) ==
    r.profit_margin_percent * (ScoreScale \div risk_score(r.risk_level))

\* the scored list sorted the wrong way round: lowest score first
RECURSIVE opt_insert_by_score_ascending(_, _)
opt_insert_by_score_ascending(sorted, o) ==
    IF sorted = << >> THEN <<o>>
    ELSE IF combined_score(Head(sorted)) <= combined_score(o)
    THEN <<Head(sorted)>> \o opt_insert_by_score_ascending(Tail(sorted), o)
    ELSE <<o>> \o sorted

\* scored_results.sort(key=combined_score, reverse=True): stable
RECURSIVE opt_insert_by_score(_, _)
opt_insert_by_score(sorted, o) ==
    IF sorted = << >> THEN <<o>>
    ELSE IF combined_score(Head(sorted)) >= combined_score(o)
    THEN <<Head(sorted)>> \o opt_insert_by_score(Tail(sorted), o)
    ELSE <<o>> \o sorted

RECURSIVE opt_sort_by_score(_)
opt_sort_by_score(rs) ==
    IF rs = << >> THEN << >>
    ELSE opt_insert_by_score(opt_sort_by_score(SubSeq(rs, 1, Len(rs) - 1)),
                             rs[Len(rs)])

\* Python's None, distinct from the empty dict a fresh agent holds
None == [none |-> TRUE]

\* size_desc of _generate_reasoning
size_desc(apt_amount) ==
    IF apt_amount < 100 THEN "small"
    ELSE IF apt_amount < 1000 THEN "medium"
    ELSE IF apt_amount < 5000 THEN "large"
    ELSE "very large"

\* the dict built from scored_results[0] (lines 239-251)
optimal_dict(optimal) ==
    [recommended_apt_investment |-> optimal.apt_investment,
     recommended_usd_investment |-> optimal.usd_investment,
     expected_profit_usd |-> optimal.net_profit_usd,
     expected_profit_margin |-> optimal.profit_margin_percent,
     expected_roi |-> optimal.roi_percent,
     risk_level |-> optimal.risk_level,
     total_costs |-> optimal.total_costs_usd,
     combined_score |-> combined_score(optimal),
     reasoning |-> size_desc(optimal.apt_investment)]

\* _find_optimal_investment on the margin-sorted results
find_optimal_investment(results) ==
    IF results = << >> THEN None
    ELSE optimal_dict(opt_sort_by_score(results)[1])

\* str.upper() on the token names of the model
Upper(token) ==
    IF token = "usdc" THEN "USDC"
    ELSE IF token = "usdt" THEN "USDT"
    ELSE IF token = "apt" THEN "APT"
    ELSE IF token = "dai" THEN "DAI"
    ELSE token

\* the result dict of lines 132-151
optimization_dict(input, prices, amounts, results) ==
    [status |-> "success", error |-> Absent,
     optimization |->
       [from_token |-> Upper(input.from_token),
        to_token |-> Upper(input.to_token),
        max_investment_apt |-> input.max_investment_apt,
        amounts_tested |-> Len(amounts),
        profitable_amounts |-> Len(results)],
     optimal_investment |->
         IF results # << >> THEN find_optimal_investment(results) ELSE None,
     all_profitable_options |-> SubSeq(results, 1, Min(10, Len(results))),
     market_conditions |->
       [apt_price_usd |-> prices.apt,
        price_spread_available |->
            opt_calculate_price_difference(input.from_token, input.to_token),
        gas_cost_usd |->
            RoundDiv(2 * prices.apt, (1000 * PriceScale) \div OptMoneyScale)],
     recommendations |->
         IF results = << >>
         THEN "No profitable opportunities found with current market conditions"
         ELSE "Found profitable investment amounts"]

\* what the scan returns, caches and evaluated on its way
scan_outcome(result, evals) ==
    [result |-> result, cached |-> <<result>>, evaluated |-> evals]

ladder_scan(input, prices, amounts, evals) ==
    scan_outcome(
        optimization_dict(input, prices, amounts,
                          opt_sort_by_margin(optimization_results(evals))),
        evals)

scan_amounts(input, prices, amounts) ==
    ladder_scan(input, prices, amounts,
                amount_evaluations(amounts, input, prices))

\* _optimize_investment_amount (lines 82-157)
optimize_investment_amount(input, prices) ==
    scan_amounts(input, prices,
                 test_amounts(all_amounts(input.max_investment_apt)))

\* An investment size of the break-even search is <<whole APT, fraction>>
\* with the fraction in 1/FracScale APT: twenty halvings of whole numbers
FracScale == 2^20

\* (min_apt + max_apt) / 2, exactly
Midpoint(lo, hi) ==
    LET w == lo[1] + hi[1]
        f == ((lo[2] + hi[2]) \div 2) + (w % 2) * (FracScale \div 2)
    IN  <<(w \div 2) + (f \div FracScale), f % FracScale>>

\* mid_apt * current_prices["apt"] to the nearest 1/PriceScale USD
size_in_usd(size, apt_price) ==
    size[1] * apt_price
      + RoundDiv((size[2] \div 1024) * apt_price
                   + ((size[2] % 1024) * apt_price) \div 1024, 1024)

\* range(20)
BreakevenIterations == 20

\* abs(net_profit_usd) < 0.01
close_to_breakeven(net_profit_usd) ==
    Abs(net_profit_usd) < OptMoneyScale \div 100

\* the loop left after its last pass with the last midpoint as the answer
exhausted_with_last_midpoint(last_mid, probed) ==
    [breakeven_apt |-> last_mid, probed |-> probed]

\* the loop left after its last pass: breakeven_apt is still None
exhausted(last_mid, probed) ==
    [breakeven_apt |-> None, probed |-> probed]

\* one probe of the search: the size and the net profit found there
probe_of(mid, net_profit_usd) ==
    [mid_apt |-> mid, net_profit_usd |-> net_profit_usd]

\* the bisection of lines 391-406; probed is the list of probes so far
RECURSIVE breakeven_search(_, _, _, _, _, _)

breakeven_step(min_apt, max_apt, mid, net, probed, input, prices) ==
    IF close_to_breakeven(net)
    THEN [breakeven_apt |-> mid, probed |-> probed]
    ELSE IF net < 0
    THEN breakeven_search(mid, max_apt, mid, probed, input, prices)
    ELSE breakeven_search(min_apt, mid, mid, probed, input, prices)

breakeven_probe(min_apt, max_apt, mid, net, probed, input, prices) ==
    breakeven_step(min_apt, max_apt, mid, net,
                   probed \o <<probe_of(mid, net)>>, input, prices)

breakeven_at(min_apt, max_apt, mid, probed, input, prices) ==
    breakeven_probe(min_apt, max_apt, mid,
        calculate_profit_for_amount(mid, size_in_usd(mid, prices.apt),
            input.from_token, input.to_token, input.dex_fees,
            prices).net_profit_usd,
        probed, input, prices)

breakeven_search(min_apt, max_apt, last_mid, probed, input, prices) ==
    IF Len(probed) >= BreakevenIterations
    THEN exhausted(last_mid, probed)
    ELSE breakeven_at(min_apt, max_apt, Midpoint(min_apt, max_apt), probed,
                      input, prices)

\* the result dict of lines 408-420
breakeven_dict(found, input, prices) ==
    [status |-> "success", error |-> Absent,
     breakeven_analysis |->
       [breakeven_apt_amount |-> found.breakeven_apt,
        breakeven_usd_amount |->
            IF found.breakeven_apt # None
            THEN size_in_usd(found.breakeven_apt, prices.apt)
            ELSE None,
        found |-> found.breakeven_apt # None],
     market_conditions |->
       [price_spread_percent |->
            opt_calculate_price_difference(input.from_token, input.to_token),
        minimum_spread_needed |-> 60000]]

breakeven_outcome(found, input, prices) ==
    [result |-> breakeven_dict(found, input, prices), cached |-> << >>,
     evaluated |-> found.probed]

\* _find_breakeven_amount (lines 379-424): min_apt = 1, max_apt = 100000
find_breakeven_amount(input, prices) ==
    breakeven_outcome(
        breakeven_search(<<1, 0>>, <<100000, 0>>, None, << >>, input, prices),
        input, prices)

\* the input_data.get(...) defaults of the optimizer's handlers
OptDefaultInput ==
    [action |-> "optimize_investment", apt_amount |-> 1000,
     from_token |-> "usdc", to_token |-> "usdt", dex_fees |-> << >>,
     current_prices |-> << >>, apt_price |-> << >>,
     max_investment_apt |-> 50000]

OptAmounts == {1, 100, 5000}

\* <<from_token, to_token>> of the analyze_amount requests
OptTokens == {<<"usdc", "usdt">>, <<"usdc", "apt">>, <<"apt", "usdt">>}

OptSchedules ==
    { << >>,
      << <<"from_dex", 10000>>, <<"to_dex", 20000>> >>,
      << <<"from_dex", 0>>, <<"to_dex", 0>> >>,
      << <<"dexX", 10000>> >> }

\* optimize_investment requests: limits around the ladder's entries,
\* token pairs with other spreads, and fees that leave nothing profitable
OptScans ==
    {[OptDefaultInput EXCEPT !.max_investment_apt = mx] :
        mx \in {0, 1, 99, 100, 50000, 100000}}
    \cup
    {[OptDefaultInput EXCEPT !.max_investment_apt = 2000, !.from_token = ft] :
        ft \in {"apt", "dai"}}
    \cup
    {[OptDefaultInput EXCEPT !.dex_fees = fs] :
        fs \in { << <<"from_dex", 0>>, <<"to_dex", 0>> >>,
                 << <<"from_dex", 60000>>, <<"to_dex", 60000>> >> }}

\* find_breakeven requests
OptSearches ==
    {[OptDefaultInput EXCEPT !.action = "find_breakeven", !.dex_fees = fs] :
        fs \in { << >>,
                 << <<"from_dex", 20000>>, <<"to_dex", 25000>> >>,
                 << <<"from_dex", 20000>>, <<"to_dex", 24998>> >> }}

OptRequests ==
    {[OptDefaultInput EXCEPT !.action = "analyze_amount", !.apt_amount = a,
                             !.from_token = ft[1], !.to_token = ft[2],
                             !.dex_fees = fs, !.apt_price = ap] :
        a \in OptAmounts, ft \in OptTokens,
        fs \in OptSchedules, ap \in {<< >>, <<10000>>}}
    \cup {[OptDefaultInput EXCEPT !.action = "swap"]}
    \cup OptScans
    \cup OptSearches



OptimizerInit ==
    /\ opt_current_prices = [apt |-> InitAptPrice, usdc |-> InitUsdcPrice,
                             usdt |-> InitUsdtPrice]
    /\ opt_last_result = NoResult
    /\ opt_last_update = 0
    /\ opt_call = [input |-> NoInput, result |-> NoResult,
                   evaluated |-> << >>]


----------------------------------------------------------------------------
(* ArbitrageDetectorAgent.execute as a state machine.  execute suspends    *)
(* only inside _fetch_live_gas_price, and only when the gas price cache is *)
(* older than 30 seconds; the handlers never suspend.                      *)

MaxTicks == 2

\* the clock advances by one lifetime of the gas price cache
TickSeconds == GasCacheSeconds

\* time.time() at construction, later than any cache lifetime
Epoch == 3 * GasCacheSeconds

Callers == {1, 2}

GasEstimates == {100, 150}

\* the input_data.get(...) defaults
DefaultInput ==
    [action |-> "possibilities", from_pair |-> "usdc_apt",
     to_pair |-> "usdt_apt", from_dex |-> Absent, to_dex |-> Absent,
     trade_amount |-> 1000, custom_dex_fees |-> << >>,
     current_prices |-> << >>, apt_price |-> << >>]

Requests ==
    { [DefaultInput EXCEPT !.action = "isprofitable"],
      [DefaultInput EXCEPT !.action = "getcharges",
                           !.custom_dex_fees = << <<"dexX", 30000>> >>,
                           !.apt_price = <<20000>>],
      [DefaultInput EXCEPT !.action = "getcharges", !.trade_amount = 10],
      [DefaultInput EXCEPT !.action = "getcharges", !.trade_amount = -100],
      [DefaultInput EXCEPT !.action = "isprofitable", !.trade_amount = 0],
      [DefaultInput EXCEPT !.action = "isprofitable",
                           !.from_pair = "apt_usdc", !.to_pair = "usdc_apt"],
      [DefaultInput EXCEPT !.action = "getcharges", !.apt_price = <<0>>],
      [DefaultInput EXCEPT !.trade_amount = 5000,
                           !.custom_dex_fees = << <<"dexX", 25000>>,
                                                  <<"dexY", 30000>> >>,
                           !.current_prices = [apt |-> 12450, usdt |-> -999]],
      [DefaultInput EXCEPT !.trade_amount = 0,
                           !.custom_dex_fees = << <<"dexX", 25000>>,
                                                  <<"dexY", 30000>> >>],
      [DefaultInput EXCEPT !.action = "swap"] }

Idle == [pc |-> "idle", input |-> NoInput, result |-> NoResult]

update_prices(prices, overrides) ==
    [t \in DOMAIN prices |->
        IF t \in DOMAIN overrides THEN overrides[t] ELSE prices[t]]
-----------------------------------------------------------------------------
(* GlobalState of app.py: the stored market data *)

\* a key the dict does not have
NoKey == [absent |-> TRUE]

\* _initialize_stored_data: the fallback values, as the fields the service
\* reads
InitialStoredData ==
    [status |-> "success", data_source |-> "initial_fallback",
     apt_price |-> InitAptPrice, note |-> Absent,
     last_successful_fetch_seconds_ago |-> NoKey]

\* a fetch coroutine that has not been called
NoFetch == [pc |-> "idle", outcome |-> NoResult, returned |-> NoResult]

\* GlobalState.__init__
AppInit ==
    /\ stored_market_data = InitialStoredData
    /\ last_successful_fetch = 0
    /\ fetches = [c \in Callers |-> NoFetch]

\* what market_agent.execute() can hand to the wait_for of the fetch
MarketResults ==
    {[status |-> "success", data_source |-> "live", apt_price |-> 12500,
      note |-> Absent, last_successful_fetch_seconds_ago |-> NoKey],
     [status |-> "success", data_source |-> "fallback",
      apt_price |-> InitAptPrice, note |-> Absent,
      last_successful_fetch_seconds_ago |-> NoKey],
     [status |-> "error", data_source |-> Absent, apt_price |-> 0,
      note |-> Absent, last_successful_fetch_seconds_ago |-> NoKey]}

\* how the awaited market_agent.execute() ends
FetchOutcomes ==
    {[kind |-> "result", result |-> r] : r \in MarketResults}
    \cup {[kind |-> "timeout", result |-> NoResult],
          [kind |-> "exception", result |-> NoResult]}

\* the note of each fallback path
fallback_note(outcome) ==
    CASE outcome.kind = "result" -> "Live fetch failed, using stored data"
      [] outcome.kind = "timeout" -> "Timeout, using stored data"
      [] OTHER -> "Error, using stored data"

\* GlobalState._get_stored_with_note at clock reading t
get_stored_with_note(note, stored, fetched_at, t) ==
    [stored EXCEPT
        !.data_source = "stored_fallback",
        !.note = note,
        !.last_successful_fetch_seconds_ago =
            IF fetched_at > 0 THEN [seconds |-> t - fetched_at] ELSE None]

fetch_storing_any_result(outcome, stored, fetched_at, t) ==
    IF outcome.kind = "result"
    THEN [returned |-> outcome.result, stored |-> outcome.result,
          fetched_at |-> t]
    ELSE [returned |->
            get_stored_with_note(fallback_note(outcome), stored,
                                 fetched_at, t),
          stored |-> stored, fetched_at |-> fetched_at]

\* GlobalState.fetch_live_market_data from the end of the await on: what it
\* returns and what it leaves in stored_market_data, last_successful_fetch
fetch_live_market_data(outcome, stored, fetched_at, t) ==
    IF outcome.kind = "result" /\ outcome.result.status = "success"
    THEN [returned |-> outcome.result, stored |-> outcome.result,
          fetched_at |-> t]
    ELSE [returned |->
            get_stored_with_note(fallback_note(outcome), stored,
                                 fetched_at, t),
          stored |-> stored, fetched_at |-> fetched_at]


\* lines 85-91 of execute: the price overrides are written to the instance
ExecutePrices(input, prices) ==
    LET p1 == IF DOMAIN input.current_prices # {}
              THEN update_prices(prices, input.current_prices)
              ELSE prices
    IN  IF input.apt_price # << >>
        THEN [p1 EXCEPT !.apt = input.apt_price[1]]
        ELSE p1

Init ==
    /\ current_prices = [apt |-> InitAptPrice, usdc |-> InitUsdcPrice,
                         usdt |-> InitUsdtPrice]
    /\ cached_gas_price = DefaultGasPrice
    /\ gas_price_timestamp = 0
    /\ last_result = NoResult
    /\ last_update = 0
    /\ now = Epoch
    /\ calls = [c \in Callers |-> Idle]
    /\ probe = NoInput
    /\ OptimizerInit
    /\ AppInit

\* the handler has run to its return without suspending: d is its outcome
Finish(c, input, d) ==
    /\ calls' = [calls EXCEPT
                    ![c] = [pc |-> "done", input |-> input,
                            result |-> d.result]]
    /\ IF d.cached # << >>
       THEN /\ last_result' = d.cached[Len(d.cached)]
            /\ last_update' = now
       ELSE UNCHANGED <<last_result, last_update>>

\* execute() up to the suspension in _fetch_live_gas_price
ExecuteStart(c, input) ==
    /\ calls[c].pc # "fetching"
    /\ ~(now - gas_price_timestamp < GasCacheSeconds)
    /\ current_prices' = ExecutePrices(input, current_prices)
    /\ calls' = [calls EXCEPT ![c] = [pc |-> "fetching", input |-> input,
                                      result |-> NoResult]]
    /\ UNCHANGED <<cached_gas_price, gas_price_timestamp, last_result,
                   last_update, now, probe, OptimizerVars,
                   AppVars>>

\* execute() when the gas price cache is fresh: no suspension at all
ExecuteCachedGas(c, input) ==
    /\ calls[c].pc # "fetching"
    /\ now - gas_price_timestamp < GasCacheSeconds
    /\ current_prices' = ExecutePrices(input, current_prices)
    /\ Finish(c, input,
              Dispatch(input, ExecutePrices(input, current_prices),
                       cached_gas_price, gas_price_timestamp, now))
    /\ UNCHANGED <<cached_gas_price, gas_price_timestamp, now, probe,
                   OptimizerVars, AppVars>>

\* the RPC answered 200: the estimate is cached, then the handler runs
GasFetchOk(c, gas_estimate) ==
    /\ calls[c].pc = "fetching"
    /\ cached_gas_price' = gas_estimate
    /\ gas_price_timestamp' = now
    /\ Finish(c, calls[c].input,
              Dispatch(calls[c].input, current_prices, gas_estimate, now,
                       now))
    /\ UNCHANGED <<current_prices, now, probe, OptimizerVars,
                   AppVars>>

\* the RPC failed or timed out: the handler runs with the cached gas price
GasFetchFail(c) ==
    /\ calls[c].pc = "fetching"
    /\ Finish(c, calls[c].input,
              Dispatch(calls[c].input, current_prices, cached_gas_price,
                       gas_price_timestamp, now))
    /\ UNCHANGED <<current_prices, cached_gas_price, gas_price_timestamp,
                   now, probe, OptimizerVars,
                   AppVars>>

Tick ==
    /\ now < Epoch + MaxTicks * TickSeconds
    /\ now' = now + TickSeconds
    /\ UNCHANGED <<current_prices, cached_gas_price, gas_price_timestamp,
                   last_result, last_update, calls, probe, OptimizerVars,
                   AppVars>>


AppUnchanged ==
    UNCHANGED <<current_prices, cached_gas_price, gas_price_timestamp,
                last_result, last_update, now, calls, probe, OptimizerVars>>

\* fetch_live_market_data() up to its await of market_agent.execute()
FetchStart(c) ==
    /\ fetches[c].pc # "fetching"
    /\ fetches' = [fetches EXCEPT ![c] = [NoFetch EXCEPT !.pc = "fetching"]]
    /\ UNCHANGED <<stored_market_data, last_successful_fetch>>
    /\ AppUnchanged

\* the await ends with outcome: the rest of fetch_live_market_data()
FetchReturn(c, outcome) ==
    /\ fetches[c].pc = "fetching"
    /\ LET d == fetch_live_market_data(outcome, stored_market_data,
                                       last_successful_fetch, now)
       IN  /\ stored_market_data' = d.stored
           /\ last_successful_fetch' = d.fetched_at
           /\ fetches' = [fetches EXCEPT
                             ![c] = [pc |-> "done", outcome |-> outcome,
                                     returned |-> d.returned]]
    /\ AppUnchanged

\* the handlers of the service calling fetch_live_market_data concurrently
MarketNext ==
    \/ \E c \in Callers : FetchStart(c)
    \/ \E c \in Callers, outcome \in FetchOutcomes : FetchReturn(c, outcome)
    \/ Tick

MarketSpec == Init /\ [][MarketNext]_vars

\* one caller at a time: every request of the model
Next ==
    \/ \E input \in Requests : ExecuteStart(1, input)
    \/ \E input \in Requests : ExecuteCachedGas(1, input)
    \/ \E g \in GasEstimates : GasFetchOk(1, g)
    \/ GasFetchFail(1)
    \/ Tick

Spec == Init /\ [][Next]_vars

\* two callers of the same agent instance, as under the asyncio event loop
\* of the service: the calls interleave at the suspension of the gas fetch
ConcurrentRequests ==
    { [DefaultInput EXCEPT !.action = "isprofitable"],
      [DefaultInput EXCEPT !.action = "getcharges",
                           !.custom_dex_fees = << <<"dexX", 30000>> >>,
                           !.apt_price = <<20000>>],
      [DefaultInput EXCEPT !.action = "getcharges", !.apt_price = <<12450>>] }

ConcurrentNext ==
    \/ \E c \in Callers, input \in ConcurrentRequests :
           ExecuteStart(c, input)
    \/ \E c \in Callers, input \in ConcurrentRequests :
           ExecuteCachedGas(c, input)
    \/ \E c \in Callers, g \in GasEstimates : GasFetchOk(c, g)
    \/ \E c \in Callers : GasFetchFail(c)
    \/ Tick

ConcurrentSpec == Init /\ [][ConcurrentNext]_vars

----------------------------------------------------------------------------
(* InvestmentOptimizerAgent.execute as a state machine *)

\* InvestmentOptimizerAgent.execute: it never suspends
OptAnalyzeAmount(input) ==
    /\ input.action = "analyze_amount"
    /\ opt_current_prices' = ExecutePrices(input, opt_current_prices)
    /\ opt_call' = [input |-> input,
                    result |-> analyze_specific_amount(input,
                                   ExecutePrices(input, opt_current_prices)),
                    evaluated |-> << >>]
    /\ UNCHANGED <<opt_last_result, opt_last_update>>
    /\ UNCHANGED <<current_prices, cached_gas_price, gas_price_timestamp,
                   last_result, last_update, now, calls, probe,
                   AppVars>>

OptUnknownAction(input) ==
    /\ input.action \notin {"optimize_investment", "analyze_amount",
                            "find_breakeven"}
    /\ opt_current_prices' = ExecutePrices(input, opt_current_prices)
    /\ opt_call' = [input |-> input,
                    result |-> OptErrorResult("Unknown action"),
                    evaluated |-> << >>]
    /\ UNCHANGED <<opt_last_result, opt_last_update>>
    /\ UNCHANGED <<current_prices, cached_gas_price, gas_price_timestamp,
                   last_result, last_update, now, calls, probe,
                   AppVars>>

\* execute's return of a handler's outcome d, cached if the handler did
OptFinish(input, prices, d) ==
    /\ opt_current_prices' = prices
    /\ opt_call' = [input |-> input, result |-> d.result,
                    evaluated |-> d.evaluated]
    /\ IF d.cached = << >>
       THEN UNCHANGED <<opt_last_result, opt_last_update>>
       ELSE /\ opt_last_result' = d.cached[Len(d.cached)]
            /\ opt_last_update' = now
    /\ UNCHANGED <<current_prices, cached_gas_price, gas_price_timestamp,
                   last_result, last_update, now, calls, probe,
                   AppVars>>

OptOptimizeInvestment(input) ==
    /\ input.action = "optimize_investment"
    /\ OptFinish(input, ExecutePrices(input, opt_current_prices),
                 optimize_investment_amount(input,
                     ExecutePrices(input, opt_current_prices)))

OptFindBreakeven(input) ==
    /\ input.action = "find_breakeven"
    /\ OptFinish(input, ExecutePrices(input, opt_current_prices),
                 find_breakeven_amount(input,
                     ExecutePrices(input, opt_current_prices)))

OptNext ==
    \/ \E input \in OptRequests : OptOptimizeInvestment(input)
    \/ \E input \in OptRequests : OptFindBreakeven(input)
    \/ \E input \in OptRequests : OptAnalyzeAmount(input)
    \/ \E input \in OptRequests : OptUnknownAction(input)

OptSpec == Init /\ [][OptNext]_vars

OptReturned(action) ==
    /\ opt_call.input # NoInput
    /\ opt_call.input.action = action
    /\ opt_call.result.status = "success"

\* C8: an empty fee schedule means zero trading fees on every cost path:
\* the detector's charge calculation, the optimizer's per-amount profit
\* calculation and the fee calculation tool all charge a trading fee of 0
\* when the caller supplies no fees.
C8_EmptyScheduleMeansNoFees ==
    /\ OptReturned("analyze_amount") /\ opt_call.input.dex_fees = << >> =>
          opt_call.result.cost_breakdown.trading_fees = 0
    /\ \A c \in Callers :
          /\ calls[c].pc = "done"
          /\ calls[c].result.status = "success"
          /\ calls[c].input.action \in {"getcharges", "isprofitable"}
          /\ calls[c].input.custom_dex_fees = << >>
          => calls[c].result.charges.dex_fees.total_trading_fees_usd = 0
    /\ probe # NoInput /\ probe.fn = "get_fee_rate" /\ probe.done
          /\ probe.args[1] = << >>
          => probe.out = 0

----------------------------------------------------------------------------
(* The pure functions applied to arguments drawn from bounded sets *)

ProbeDexs == {"dex_a", "dex_b", "pancakeswap", "thalaswap", "dexX"}

ProbePairs == {"usdc_apt", "usdt_apt", "apt_usdc", "apt_usdt", "usdc_usdt"}

ProbePrices ==
    [apt : {InitAptPrice, 0}, usdc : {InitUsdcPrice, 1020},
     usdt : {InitUsdtPrice, 980, -999}]

ProbeMargins ==
    {-1000, 0, 19999, 20000, 20001, 49999, 50000, 50001,
     99999, 100000, 100001, 250000}

ProbeAmounts == {1, 9999, 10000, 10001, 49999, 50000, 50001, 100000}

ProbeSchedules ==
    { << >>,
      << <<"dexX", 30000>> >>,
      << <<"dexX", 10000>>, <<"dexY", 20000>> >>,
      << <<"dexX", 10000>>, <<"default", 40000>> >>,
      << <<"Smart Contract", 10000>> >>,
      << <<"default", 0>>, <<"fee", 30000>> >>,
      << <<"from_dex", 10000>>, <<"to_dex", 20000>> >> }

ProbeFeeDexs == {Absent, "dexX", "dexY", "liquidswap", "dex_a"}

-----------------------------------------------------------------------------
(* The /arbitrage/isprofitable handler of app.py *)

\* f"{a}_{b}"
pair_name(a, b) ==
    CASE a = "apt" /\ b = "usdc" -> "apt_usdc"
      [] a = "apt" /\ b = "usdt" -> "apt_usdt"
      [] a = "usdc" /\ b = "apt" -> "usdc_apt"
      [] a = "usdt" /\ b = "apt" -> "usdt_apt"
      [] OTHER -> "apt_apt"

\* [request.to_token] if given, else the other two tokens
tokens_to_check(request) ==
    IF request.to_token # Absent THEN <<request.to_token>>
    ELSE SelectSeq(<<"usdc", "usdt", "apt">>,
                   LAMBDA t : t # request.from_token)

\* from_pair of the route the handler builds
handler_from_pair(from_token, to_token) ==
    IF from_token = "apt" THEN pair_name("apt", to_token)
    ELSE pair_name(from_token, "apt")

\* to_pair of the route the handler builds
handler_to_pair(from_token, to_token) ==
    IF from_token = "apt" THEN pair_name(to_token, "apt")
    ELSE IF to_token = "apt" THEN pair_name("apt", from_token)
    ELSE pair_name("apt", to_token)

\* input_data of the handler's execute call for one destination token
handler_input(request, to_token) ==
    [DefaultInput EXCEPT
        !.action = "isprofitable",
        !.from_pair = handler_from_pair(request.from_token, to_token),
        !.to_pair = handler_to_pair(request.from_token, to_token),
        !.trade_amount = request.trade_amount,
        !.custom_dex_fees = request.dex_fees,
        !.apt_price = request.apt_price]

\* the agent's result for one destination token, tagged with the token
handler_execute(request, to_token, prices, gas_price, t) ==
    LET input == handler_input(request, to_token)
    IN  [to_token |-> to_token,
         result |-> check_profitability(input, ExecutePrices(input, prices),
                                        gas_price, t, t).result]

\* results: only the executions with status "success" are appended
handler_results(request, prices, gas_price, t) ==
    LET toks == tokens_to_check(request)
    IN  SelectSeq([i \in 1..Len(toks) |->
                     handler_execute(request, toks[i], prices, gas_price, t)],
                  LAMBDA e : e.result.status = "success")

\* what the handler returns for an agent result
handler_answer(e, n) ==
    [status |-> e.result.status, error |-> e.result.error,
     route |-> e.result.route, profitability |-> e.result.profitability,
     recommendation |-> e.result.recommendation,
     to_token |-> e.to_token, alternatives_checked |-> n]

\* the final return of the handler: no profitable option
no_profitable_option(n) ==
    [status |-> "success", error |-> Absent, route |-> NoRoute,
     profitability |-> [is_profitable |-> FALSE],
     recommendation |-> "SKIP", to_token |-> Absent,
     alternatives_checked |-> n]

\* the return of the handler given the appended results
handler_return(results, n) ==
    LET profitable == SelectSeq(results,
            LAMBDA e : e.result.profitability.is_profitable)
        margin(e) == e.result.profitability.profit_margin_percent
        best == CHOOSE i \in 1..Len(profitable) :
                  \A j \in 1..Len(profitable) :
                     \/ margin(profitable[j]) < margin(profitable[i])
                     \/ margin(profitable[j]) = margin(profitable[i]) /\ j >= i
    IN  IF Len(results) = 1 THEN handler_answer(results[1], 1)
        ELSE IF profitable # << >>
        THEN handler_answer(profitable[best], Len(results))
        ELSE no_profitable_option(Len(results))

\* is_arbitrage_profitable(request) with the simple agent
is_arbitrage_profitable(request, prices, gas_price, t) ==
    LET results == handler_results(request, prices, gas_price, t)
    IN  handler_return(results, Len(results))

\* requests to /arbitrage/isprofitable
HandlerRequests ==
    {[from_token |-> ft, to_token |-> tt, trade_amount |-> 1000,
      dex_fees |-> fs, apt_price |-> <<InitAptPrice>>] :
        ft \in {"apt", "usdc", "usdt"},
        tt \in {Absent, "apt", "usdc", "usdt"},
        fs \in { << >>, << <<"Smart Contract", 30000>> >>,
                 << <<"pancakeswap", 10000>>, <<"thalaswap", 5000>> >> }}

-----------------------------------------------------------------------------

\* isprofitable requests around the 0.5 % margin
ProbeRoutes ==
    {[DefaultInput EXCEPT !.action = "isprofitable", !.trade_amount = a,
                          !.custom_dex_fees = fs] :
        a \in {-100, 10, 1000, 5000},
        fs \in { << >>,
                 << <<"dex_a", 5752>>, <<"dex_b", 0>> >>,
                 << <<"dex_a", 5753>>, <<"dex_b", 0>> >>,
                 << <<"dexX", 25000>>, <<"dexY", 30000>> >>,
                 << <<"pancakeswap", 10000>>, <<"thalaswap", 5000>> >> }}

\* analyze_amount requests around the 0.5 % margin
ProbeAnalyses ==
    {[OptDefaultInput EXCEPT !.action = "analyze_amount", !.apt_amount = a,
                             !.from_token = ft, !.dex_fees = fs] :
        a \in {0, 1, 50, 100, 5000}, ft \in {"usdc", "apt"},
        fs \in { << >>,
                 << <<"from_dex", 10000>>, <<"to_dex", 38000>> >>,
                 << <<"from_dex", 10000>>, <<"to_dex", 20000>> >>,
                 << <<"from_dex", 60000>>, <<"to_dex", 60000>> >> }}

\* possibilities requests over schedules naming no, one, two and three DEXs
ProbeSearches ==
    {[DefaultInput EXCEPT !.action = "possibilities", !.trade_amount = a,
                          !.custom_dex_fees = fs] :
        a \in {0, 1000, 5000},
        fs \in { << >>,
                 << <<"default", 30000>> >>,
                 << <<"from_dex", 25000>>, <<"to_dex", 30000>> >>,
                 << <<"Smart Contract", 30000>> >>,
                 << <<"dexX", 25000>> >>,
                 << <<"dexX", 25000>>, <<"dexY", 30000>> >>,
                 << <<"dexX", 25000>>, <<"default", 0>>, <<"dexY", 5000>> >>,
                 << <<"pancakeswap", 10000>>, <<"thalaswap", 5000>>,
                    <<"hippo", 2000>> >>,
                 << <<"pancakeswap", 50000>>, <<"thalaswap", 5000>>,
                    <<"hippo", 2000>> >> }}

\* margins and amounts around the thresholds of the three risk tables
RiskMargins == ProbeMargins \cup {199999, 200000, 200001}

RiskAmounts == ProbeAmounts \cup {4999, 5000, 5001, 19999, 20000, 20001}

\* trade amounts in whole USD around the band edges of both policies
SlippageAmounts ==
    {-100, 0, 1, 999, 1000, 1001, 4999, 5000, 5001, 19999, 20000, 20001,
     24999, 25000, 25001, 60000}

OptSlippageAmounts == SlippageAmounts \cup {99999, 100000, 100001, 150000}

ProbeInputs ==
    {[fn |-> "calculate_price_difference", args |-> <<pr, fp, tp, fd, td>>,
      done |-> FALSE, out |-> 0] :
        pr \in ProbePrices, fp \in ProbePairs, tp \in ProbePairs,
        fd \in ProbeDexs, td \in ProbeDexs}
    \cup
    {[fn |-> "assess_risk_level", args |-> <<m, a>>,
      done |-> FALSE, out |-> 0] :
        m \in ProbeMargins, a \in ProbeAmounts}
    \cup
    {[fn |-> "dex_fee_percents", args |-> <<fs, fd, td>>,
      done |-> FALSE, out |-> 0] :
        fs \in ProbeSchedules, fd \in ProbeFeeDexs, td \in ProbeFeeDexs}
    \cup
    {[fn |-> "get_fee_rate", args |-> <<fs, d>>,
      done |-> FALSE, out |-> 0] :
        fs \in ProbeSchedules, d \in ProbeFeeDexs \ {Absent}}
    \cup
    {[fn |-> "check_profitability", args |-> <<input, pr, g>>,
      done |-> FALSE, out |-> 0] :
        input \in ProbeRoutes, pr \in {pr \in ProbePrices : pr.usdt # 980},
        g \in GasEstimates}
    \cup
    {[fn |-> "find_possibilities", args |-> <<input, pr, g>>,
      done |-> FALSE, out |-> 0] :
        input \in ProbeSearches, pr \in {pr \in ProbePrices : pr.usdt # 980},
        g \in GasEstimates}
    \cup
    {[fn |-> "risk_tables", args |-> <<m, a>>, done |-> FALSE, out |-> 0] :
        m \in RiskMargins, a \in RiskAmounts}
    \cup
    {[fn |-> "estimate_slippage", args |-> <<ab[1], ab[2]>>,
      done |-> FALSE, out |-> 0] :
        ab \in {ab \in SlippageAmounts \X SlippageAmounts : ab[1] <= ab[2]}}
    \cup
    {[fn |-> "estimate_slippage_for_amount", args |-> <<ab[1], ab[2]>>,
      done |-> FALSE, out |-> 0] :
        ab \in {ab \in OptSlippageAmounts \X OptSlippageAmounts :
                  ab[1] <= ab[2]}}
    \cup
    {[fn |-> "is_arbitrage_profitable", args |-> <<request, pr, g>>,
      done |-> FALSE, out |-> 0] :
        request \in {q \in HandlerRequests : q.to_token # q.from_token},
        pr \in {pr \in ProbePrices : pr.usdt # 980 /\ pr.apt # 0},
        g \in {DefaultGasPrice}}
    \cup
    {[fn |-> "analyze_specific_amount", args |-> <<input, pr>>,
      done |-> FALSE, out |-> 0] :
        input \in ProbeAnalyses, pr \in {pr \in ProbePrices : pr.usdt = 999}}

FnInit ==
    /\ current_prices = [apt |-> InitAptPrice, usdc |-> InitUsdcPrice,
                         usdt |-> InitUsdtPrice]
    /\ cached_gas_price = DefaultGasPrice
    /\ gas_price_timestamp = 0
    /\ last_result = NoResult
    /\ last_update = 0
    /\ now = Epoch
    /\ calls = [c \in Callers |-> Idle]
    /\ probe \in ProbeInputs
    /\ OptimizerInit
    /\ AppInit

DetectorUnchanged ==
    UNCHANGED <<current_prices, cached_gas_price, gas_price_timestamp,
                last_result, last_update, now, calls, OptimizerVars,
                AppVars>>

ApplyPriceDifference ==
    /\ probe.fn = "calculate_price_difference"
    /\ ~probe.done
    /\ probe' = [probe EXCEPT
          !.done = TRUE,
          !.out = calculate_price_difference(probe.args[1], probe.args[2],
                      probe.args[3], probe.args[4], probe.args[5])]
    /\ DetectorUnchanged

ApplyRiskLevel ==
    /\ probe.fn = "assess_risk_level"
    /\ ~probe.done
    /\ probe' = [probe EXCEPT
          !.done = TRUE,
          !.out = assess_risk_level(probe.args[1], probe.args[2])]
    /\ DetectorUnchanged

\* the fee percents of _calculate_charges for an input carrying the
\* schedule and the optional from_dex / to_dex keys
ApplyDexFeePercents ==
    /\ probe.fn = "dex_fee_percents"
    /\ ~probe.done
    /\ LET input == [DefaultInput EXCEPT !.custom_dex_fees = probe.args[1],
                                         !.from_dex = probe.args[2],
                                         !.to_dex = probe.args[3]]
       IN  probe' = [probe EXCEPT
              !.done = TRUE,
              !.out = dex_fee_percents(probe.args[1], route_from_dex(input),
                                       route_to_dex(input))]
    /\ DetectorUnchanged

ApplyGetFeeRate ==
    /\ probe.fn = "get_fee_rate"
    /\ ~probe.done
    /\ probe' = [probe EXCEPT
          !.done = TRUE,
          !.out = get_fee_rate(probe.args[1], probe.args[2])]
    /\ DetectorUnchanged

\* _check_profitability with a fresh gas price
ApplyCheckProfitability ==
    /\ probe.fn = "check_profitability"
    /\ ~probe.done
    /\ probe' = [probe EXCEPT
          !.done = TRUE,
          !.out = check_profitability(probe.args[1], probe.args[2],
                                      probe.args[3], now, now).result]
    /\ DetectorUnchanged

\* the handler with a fresh gas price
ApplyIsArbitrageProfitable ==
    /\ probe.fn = "is_arbitrage_profitable"
    /\ ~probe.done
    /\ probe' = [probe EXCEPT
          !.done = TRUE,
          !.out = is_arbitrage_profitable(probe.args[1], probe.args[2],
                                          probe.args[3], now)]
    /\ DetectorUnchanged

\* _find_possibilities with a fresh gas price
ApplyFindPossibilities ==
    /\ probe.fn = "find_possibilities"
    /\ ~probe.done
    /\ probe' = [probe EXCEPT
          !.done = TRUE,
          !.out = find_possibilities(probe.args[1], probe.args[2],
                                     probe.args[3], now, now)]
    /\ DetectorUnchanged

\* the three _assess_risk tables on one margin and trade amount
ApplyRiskTables ==
    /\ probe.fn = "risk_tables"
    /\ ~probe.done
    /\ probe' = [probe EXCEPT
          !.done = TRUE,
          !.out = [detector |-> assess_risk_level(probe.args[1],
                                                  probe.args[2]),
                   optimizer |-> opt_assess_risk_level(probe.args[1],
                                     probe.args[2] * PriceScale),
                   tool |-> tool_assess_risk(probe.args[1], probe.args[2])]]
    /\ DetectorUnchanged

\* the detector's slippage cost on two trade amounts
ApplyEstimateSlippage ==
    /\ probe.fn = "estimate_slippage"
    /\ ~probe.done
    /\ probe' = [probe EXCEPT
          !.done = TRUE,
          !.out = <<slippage_cost_usd(probe.args[1]),
                    slippage_cost_usd(probe.args[2])>>]
    /\ DetectorUnchanged

\* the optimizer's slippage cost on two trade amounts
ApplyEstimateSlippageForAmount ==
    /\ probe.fn = "estimate_slippage_for_amount"
    /\ ~probe.done
    /\ probe' = [probe EXCEPT
          !.done = TRUE,
          !.out = <<opt_slippage_cost_usd(probe.args[1] * PriceScale),
                    opt_slippage_cost_usd(probe.args[2] * PriceScale)>>]
    /\ DetectorUnchanged

ApplyAnalyzeSpecificAmount ==
    /\ probe.fn = "analyze_specific_amount"
    /\ ~probe.done
    /\ probe' = [probe EXCEPT
          !.done = TRUE,
          !.out = analyze_specific_amount(probe.args[1], probe.args[2])]
    /\ DetectorUnchanged

FnNext ==
    \/ ApplyPriceDifference
    \/ ApplyRiskLevel
    \/ ApplyDexFeePercents
    \/ ApplyGetFeeRate
    \/ ApplyCheckProfitability
    \/ ApplyIsArbitrageProfitable
    \/ ApplyFindPossibilities
    \/ ApplyRiskTables
    \/ ApplyEstimateSlippage
    \/ ApplyEstimateSlippageForAmount
    \/ ApplyAnalyzeSpecificAmount

FnSpec == FnInit /\ [][FnNext]_vars

Applied(fn) == probe # NoInput /\ probe.fn = fn /\ probe.done

----------------------------------------------------------------------------
(* Properties of the pure functions, checked under FnSpec *)

\* C1: a route with from_dex = to_dex (named or generic) whose two pairs
\* hold the same unordered token set gets the impossible-route signal from
\* the spread model, never a numeric spread.
C1_SameDexRoundTripIsImpossible ==
    Applied("calculate_price_difference") =>
        ( /\ probe.args[4] = probe.args[5]
          /\ PairTokens(probe.args[2]) = PairTokens(probe.args[3])
          => probe.out = Sentinel )

\* the fee the documented resolution order gives a leg on a non-empty
\* schedule: exact identifier, generic/default key, single entry, 0.25 %
DocumentedFee(fs, dex) ==
    IF DictHas(fs, dex) THEN DictGet(fs, dex, 0)
    ELSE IF DictHas(fs, "Smart Contract") THEN DictGet(fs, "Smart Contract", 0)
    ELSE IF DictHas(fs, "default") THEN DictGet(fs, "default", 0)
    ELSE IF DictHas(fs, "fee") THEN DictGet(fs, "fee", 0)
    ELSE IF Len(fs) = 1 THEN fs[1][2]
    ELSE DefaultDexFee

\* C9: each leg's fee percent is resolved as exact DEX identifier, then a
\* generic/default key, then the single entry of a one-entry schedule, then
\* 0.25 %; a one-entry schedule gives both legs its fee and the last resort
\* is 0.25 % for every DEX identifier.  Stated for the detector's charge
\* calculation and for the fee calculation tool, on non-empty schedules.
C9_FeeResolutionOrder ==
    /\ Applied("dex_fee_percents") /\ probe.args[1] # << >> =>
          LET fs == probe.args[1]
              input == [DefaultInput EXCEPT !.custom_dex_fees = fs,
                                            !.from_dex = probe.args[2],
                                            !.to_dex = probe.args[3]]
          IN  /\ probe.out[1] = DocumentedFee(fs, route_from_dex(input))
              /\ probe.out[2] = DocumentedFee(fs, route_to_dex(input))
              /\ Len(fs) = 1 => probe.out = <<fs[1][2], fs[1][2]>>
    /\ Applied("get_fee_rate") /\ probe.args[1] # << >> =>
          probe.out = DocumentedFee(probe.args[1], probe.args[2])

\* C10: the risk tier is LOW iff margin > 1.0 and amount < 10,000, else
\* MEDIUM iff margin > 0.5 and amount < 50,000, else HIGH iff margin > 0.2,
\* else VERY_HIGH; a margin of exactly 1.0, 0.5 or 0.2 falls to the riskier
\* tier and an amount of exactly 10,000 or 50,000 misses the tier it bounds.
C10_RiskTiers ==
    Applied("assess_risk_level") =>
        LET m == probe.args[1]
            a == probe.args[2]
            low == m > PctScale /\ a < 10000
            medium == ~low /\ 2 * m > PctScale /\ a < 50000
            high == ~low /\ ~medium /\ 5 * m > PctScale
        IN  /\ probe.out = "LOW" <=> low
            /\ probe.out = "MEDIUM" <=> medium
            /\ probe.out = "HIGH" <=> high
            /\ probe.out = "VERY_HIGH" <=> ~low /\ ~medium /\ ~high
            /\ m = PctScale => probe.out # "LOW"
            /\ 2 * m = PctScale => probe.out \notin {"LOW", "MEDIUM"}
            /\ 5 * m = PctScale => probe.out = "VERY_HIGH"
            /\ a = 10000 => probe.out # "LOW"
            /\ a = 50000 => probe.out \notin {"LOW", "MEDIUM"}

\* a margin of exactly 1.0 % on a small trade is classified MEDIUM
C10_Witness ==
    /\ Applied("assess_risk_level")
    /\ probe.args[1] = PctScale
    /\ probe.args[2] = 9999
    /\ probe.out = "MEDIUM"

\* the unrounded margin of a successful isprofitable probe, rebuilt from
\* the spread of its route and the total cost it reports
ProbedMargin ==
    LET a == probe.args[1].trade_amount
        net == a * calculate_price_difference(probe.args[2],
                       probe.out.route.from_pair, probe.out.route.to_pair,
                       probe.out.route.from_dex, probe.out.route.to_dex)
               - probe.out.charges.total_costs.total_fees_usd
                   * (MoneyScale \div 10000)
    IN  IF a > 0 THEN RoundDiv(net, a) ELSE 0

\* C11: in every successful profitability result (detector isprofitable,
\* optimizer analyze_amount) the recommendation is EXECUTE iff is_profitable
\* holds and the profit margin is strictly greater than 0.5 %, else SKIP.
C11_ExecuteIffProfitableAboveHalfPercent ==
    /\ Applied("check_profitability") /\ probe.out.status = "success" =>
          /\ probe.out.recommendation \in {"EXECUTE", "SKIP"}
          /\ probe.out.recommendation = "EXECUTE" <=>
                /\ probe.out.profitability.is_profitable
                /\ ProbedMargin > PctScale \div 2
    /\ Applied("analyze_specific_amount") /\ probe.out.status = "success" =>
          /\ probe.out.recommendation \in {"EXECUTE", "SKIP"}
          /\ probe.out.recommendation = "EXECUTE" <=>
                /\ probe.out.analysis.is_profitable
                /\ probe.out.analysis.profit_margin_percent > PctScale \div 2

\* a profitable analysis with a margin of exactly 0.5 % is told to SKIP
C11_Witness ==
    /\ Applied("analyze_specific_amount")
    /\ probe.out.status = "success"
    /\ probe.out.analysis.is_profitable
    /\ probe.out.analysis.profit_margin_percent = PctScale \div 2
    /\ probe.out.recommendation = "SKIP"

\* the keys of the probed fee schedule, and the routes the loops entered
ProbedKeys == {probe.args[1].custom_dex_fees[i][1] : i \in 1..Len(probe.args[1].custom_dex_fees)}

EvaluatedRoutes == {probe.out.evaluations[i].route : i \in 1..Len(probe.out.evaluations)}

\* C12: given a fee schedule whose keys are n DEX identifiers, the
\* enumerator makes 4 * n * (n - 1) profitability evaluations: the four
\* canonical pair combinations crossed with every ordered pair of distinct
\* identifiers, each route once, none with from_dex = to_dex, and reports
\* that number as pairs_checked.
C12_EvaluatesEveryOrderedDexPairOnce ==
    Applied("find_possibilities") /\ ProbedKeys \cap GenericKeys = {} =>
        LET n == Cardinality(ProbedKeys)
        IN  /\ Len(probe.out.evaluations) = 4 * n * (n - 1)
            /\ Cardinality(EvaluatedRoutes) = Len(probe.out.evaluations)
            /\ EvaluatedRoutes =
                  {[from_pair |-> pc[1], to_pair |-> pc[2],
                    from_dex |-> fg[1], to_dex |-> fg[2]] :
                      pc \in {<<"usdc_apt", "usdt_apt">>,
                              <<"usdt_apt", "usdc_apt">>,
                              <<"apt_usdc", "apt_usdt">>,
                              <<"apt_usdt", "apt_usdc">>},
                      fg \in {fg \in ProbedKeys \X ProbedKeys :
                                 fg[1] # fg[2]}}
            /\ \A r \in EvaluatedRoutes : r.from_dex # r.to_dex
            /\ probe.out.result.status = "success"
            /\ probe.out.result.search.pairs_checked
                  = Len(probe.out.evaluations)

\* three identifiers: 24 evaluations and pairs_checked 24
C12_Witness ==
    /\ Applied("find_possibilities")
    /\ ProbedKeys \cap GenericKeys = {}
    /\ Cardinality(ProbedKeys) = 3
    /\ Len(probe.out.evaluations) = 24
    /\ probe.out.result.search.pairs_checked = 24

\* the evaluations that came back successful and profitable
ProfitableEvaluations ==
    {i \in 1..Len(probe.out.evaluations) :
        /\ probe.out.evaluations[i].result.status = "success"
        /\ probe.out.evaluations[i].result.profitability.is_profitable}

ProbedTop == probe.out.result.search.top_opportunities

\* C13: top_opportunities holds only routes evaluated as profitable, at
\* most 10 of them, sorted by profit margin in non-increasing order, and
\* no profitable route left out has a margin strictly greater than one
\* in the list.
C13_TopOpportunities ==
    Applied("find_possibilities") /\ probe.out.result.status = "success" =>
        /\ Len(ProbedTop) <= 10
        /\ Len(ProbedTop) = Min(10, Cardinality(ProfitableEvaluations))
        /\ \A k \in 1..Len(ProbedTop) :
              \E i \in ProfitableEvaluations :
                  /\ probe.out.evaluations[i].result.route.from_pair = ProbedTop[k].route.from_pair
                  /\ probe.out.evaluations[i].result.route.to_pair = ProbedTop[k].route.to_pair
                  /\ probe.out.evaluations[i].route.from_dex = ProbedTop[k].route.from_dex
                  /\ probe.out.evaluations[i].route.to_dex = ProbedTop[k].route.to_dex
                  /\ probe.out.evaluations[i].result.profitability = ProbedTop[k].profitability
        /\ \A k \in 1..Len(ProbedTop), l \in 1..Len(ProbedTop) :
              k # l => ProbedTop[k].route # ProbedTop[l].route
        /\ \A k \in 1..(Len(ProbedTop) - 1) :
              ProbedTop[k].profitability.profit_margin_percent
                >= ProbedTop[k + 1].profitability.profit_margin_percent
        /\ \A i \in ProfitableEvaluations :
              (\A k \in 1..Len(ProbedTop) :
                   ProbedTop[k].route # probe.out.evaluations[i].result.route)
              => \A k \in 1..Len(ProbedTop) :
                   probe.out.evaluations[i].result.profitability.profit_margin_percent
                     <= ProbedTop[k].profitability.profit_margin_percent

\* more than ten profitable routes with different margins: ten are listed
C13_Witness ==
    /\ Applied("find_possibilities")
    /\ probe.out.result.status = "success"
    /\ Cardinality(ProfitableEvaluations) > 10
    /\ Cardinality(ProfitableEvaluations) < Len(probe.out.evaluations)
    /\ Len(ProbedTop) = 10
    /\ ProbedTop[1].profitability.profit_margin_percent
         > ProbedTop[10].profitability.profit_margin_percent

\* C14: a fee schedule that supplies no DEX identifier (empty, or only
\* generic keys that yield no DEX) gives a success result with zero
\* opportunities, zero pairs checked and a guidance message.
C14_NoDexGivesEmptyResultWithMessage ==
    /\ Applied("find_possibilities")
    /\ ProbedKeys \subseteq GenericKeys \ {"Smart Contract"}
    => /\ probe.out.result.status = "success"
       /\ probe.out.result.error = Absent
       /\ probe.out.result.search.total_found = 0
       /\ probe.out.result.search.top_opportunities = << >>
       /\ probe.out.result.search.pairs_checked = 0
       /\ probe.out.result.message # Absent
       /\ probe.out.evaluations = << >>

\* a schedule with only the generic key "default"
C14_Witness ==
    /\ Applied("find_possibilities")
    /\ ProbedKeys = {"default"}
    /\ probe.out.result.status = "success"
    /\ probe.out.result.message # Absent

\* C18 as claimed: the optimizer classifies risk with a thresholds table
\* distinct from the evaluator's, so on at least one (margin, trade
\* amount) the two _assess_risk_level methods return different tiers.
C18_OptimizerTableDiffers ==
    Applied("risk_tables") =>
        \E m \in RiskMargins, a \in RiskAmounts :
            opt_assess_risk_level(m, a * PriceScale) # assess_risk_level(m, a)

\* C18, amended: the optimizer's and the evaluator's _assess_risk_level
\* return the same tier on every (margin, trade amount); the table with
\* other thresholds is the analysis tool's.
C18_OptimizerTableIsTheEvaluators ==
    Applied("risk_tables") =>
        /\ probe.out.optimizer = probe.out.detector
        /\ probe.out.optimizer \in {"LOW", "MEDIUM", "HIGH", "VERY_HIGH"}

\* the evaluator and the optimizer agree on LOW where the analysis tool's
\* table gives MEDIUM
C18_Witness ==
    /\ Applied("risk_tables")
    /\ probe.out.optimizer = probe.out.detector
    /\ probe.out.detector = "LOW"
    /\ probe.out.tool = "MEDIUM"

\* C19: under both slippage policies the slippage cost amount * percent
\* / 100 is non-decreasing in the trade amount: for all amounts a <= b,
\* cost(a) <= cost(b), also across the band edges.
C19_SlippageCostIsMonotone ==
    /\ Applied("estimate_slippage") /\ probe.args[1] <= probe.args[2] =>
          probe.out[1] <= probe.out[2]
    /\ Applied("estimate_slippage_for_amount")
          /\ probe.args[1] <= probe.args[2] =>
          probe.out[1] <= probe.out[2]

\* two amounts on either side of a band edge of the detector's policy
C19_Witness ==
    /\ Applied("estimate_slippage")
    /\ probe.args[1] = 19999
    /\ probe.args[2] = 20000
    /\ probe.out[1] < probe.out[2]

----------------------------------------------------------------------------
(* Properties of the optimizer's ladder scan and break-even search,        *)
(* checked under OptSpec                                                    *)

\* the 20 values of the ladder
Ladder ==
    {1, 5, 10, 25, 50, 100, 250, 500, 750, 1000, 1500, 2000, 3000, 5000,
     7500, 10000, 15000, 20000, 30000, 50000}

\* C15: the ladder scan evaluates exactly the ladder entries that are
\* <= max_investment_apt, each once and in ascending order, and reports
\* their count as amounts_tested; with max_investment_apt = 100 exactly
\* 1, 5, 10, 25, 50, 100 are evaluated.
C15_ScanEvaluatesLadderUpToMax ==
    OptReturned("optimize_investment") =>
        /\ {opt_call.evaluated[i].apt_amount : i \in 1..Len(opt_call.evaluated)}
             = {l \in Ladder : l <= opt_call.input.max_investment_apt}
        /\ \A i \in 1..(Len(opt_call.evaluated) - 1) :
              opt_call.evaluated[i].apt_amount
                < opt_call.evaluated[i + 1].apt_amount
        /\ opt_call.result.optimization.amounts_tested
             = Len(opt_call.evaluated)
        /\ opt_call.input.max_investment_apt = 100 =>
              [i \in 1..Len(opt_call.evaluated) |->
                  opt_call.evaluated[i].apt_amount] = <<1, 5, 10, 25, 50, 100>>

\* a scan limited to 100 APT that tested six amounts
C15_Witness ==
    /\ OptReturned("optimize_investment")
    /\ opt_call.input.max_investment_apt = 100
    /\ Len(opt_call.evaluated) = 6
    /\ opt_call.evaluated[6].apt_amount = 100
    /\ opt_call.result.optimization.amounts_tested = 6

\* the evaluated candidates that are profitable
ProfitableCandidates ==
    {i \in 1..Len(opt_call.evaluated) :
        opt_call.evaluated[i].profit_data.is_profitable}

\* 12 * margin / risk_weight with LOW 1, MEDIUM 2, HIGH 3, VERY_HIGH 4
CandidateScore(i) ==
    LET level == opt_call.evaluated[i].profit_data.risk_level
        margin == opt_call.evaluated[i].profit_data.profit_margin_percent
    IN  CASE level = "LOW" -> 12 * margin
          [] level = "MEDIUM" -> 6 * margin
          [] level = "HIGH" -> 4 * margin
          [] level = "VERY_HIGH" -> 3 * margin

\* C16: the recommended investment is a profitable ladder candidate whose
\* score margin / risk_weight is maximal among all profitable evaluated
\* candidates, and it is null exactly when no candidate is profitable.
C16_RecommendsBestRiskAdjustedCandidate ==
    OptReturned("optimize_investment") =>
        /\ opt_call.result.optimal_investment = None
             <=> ProfitableCandidates = {}
        /\ opt_call.result.optimal_investment # None =>
              \E i \in ProfitableCandidates :
                  /\ opt_call.evaluated[i].apt_amount =
                       opt_call.result.optimal_investment.recommended_apt_investment
                  /\ opt_call.evaluated[i].profit_data.profit_margin_percent =
                       opt_call.result.optimal_investment.expected_profit_margin
                  /\ \A j \in ProfitableCandidates :
                        CandidateScore(j) <= CandidateScore(i)

\* a recommendation made among candidates of different scores, some of
\* them unprofitable
C16_Witness ==
    /\ OptReturned("optimize_investment")
    /\ opt_call.result.optimal_investment # None
    /\ \E i \in ProfitableCandidates, j \in ProfitableCandidates :
           CandidateScore(j) < CandidateScore(i)
    /\ Cardinality(ProfitableCandidates) < Len(opt_call.evaluated)

\* the sizes listed in all_profitable_options
ListedSizes ==
    {opt_call.result.all_profitable_options[k].apt_investment :
        k \in 1..Len(opt_call.result.all_profitable_options)}

\* C30: in every ladder-scan result with a non-null optimal_investment the
\* recommended size is one of the entries of all_profitable_options, the
\* ten profitable sizes of highest margin.
C30_RecommendedSizeIsListed ==
    /\ OptReturned("optimize_investment")
    /\ opt_call.result.optimal_investment # None
    => /\ Len(opt_call.result.all_profitable_options) <= 10
       /\ opt_call.result.optimal_investment.recommended_apt_investment
             \in ListedSizes

\* a scan with more than ten profitable sizes, so that some are not listed
C30_Witness ==
    /\ OptReturned("optimize_investment")
    /\ opt_call.result.optimal_investment # None
    /\ opt_call.result.optimization.profitable_amounts > 10
    /\ Len(opt_call.result.all_profitable_options) = 10
    /\ opt_call.result.optimal_investment.recommended_apt_investment
          \in ListedSizes

\* C17: the break-even search ends after at most 20 profit evaluations;
\* it reports found = true with a size s only if |net profit at s| < 0.01
\* USD, and if no probed size satisfies that it reports found = false
\* with a null amount, not the last midpoint.
C17_BreakevenSearch ==
    OptReturned("find_breakeven") =>
        LET probed == opt_call.evaluated
            analysis == opt_call.result.breakeven_analysis
            close == {i \in 1..Len(probed) :
                        /\ probed[i].net_profit_usd < OptMoneyScale \div 100
                        /\ probed[i].net_profit_usd > -(OptMoneyScale \div 100)}
        IN  /\ Len(probed) <= 20
            /\ analysis.found =>
                  /\ analysis.breakeven_apt_amount # None
                  /\ \E i \in close :
                        probed[i].mid_apt = analysis.breakeven_apt_amount
            /\ close = {} =>
                  /\ ~analysis.found
                  /\ Len(probed) = 20
                  /\ analysis.breakeven_apt_amount = None
                  /\ analysis.breakeven_usd_amount = None

\* a search that used its 20 probes and reports no break-even size
C17_Witness ==
    /\ OptReturned("find_breakeven")
    /\ Len(opt_call.evaluated) = 20
    /\ ~opt_call.result.breakeven_analysis.found
    /\ opt_call.result.breakeven_analysis.breakeven_apt_amount = None

\* sizes below the reported break-even size, in whole APT
SmallerSizes == {1, 100, 1000}

\* net profit of the latest search's route at a size of a whole APT
NetProfitAt(a) ==
    calculate_profit_for_amount(<<a, 0>>,
        size_in_usd(<<a, 0>>, opt_current_prices.apt),
        opt_call.input.from_token, opt_call.input.to_token,
        opt_call.input.dex_fees, opt_current_prices).net_profit_usd

\* C23: when the search reports found = true with size s, s is the minimum
\* amount needed to break even: every size in [1, s) has a strictly
\* negative net profit.
C23_FoundSizeIsMinimumBreakeven ==
    /\ OptReturned("find_breakeven")
    /\ opt_call.result.breakeven_analysis.found
    => \A a \in SmallerSizes :
          a < opt_call.result.breakeven_analysis.breakeven_apt_amount[1] =>
              NetProfitAt(a) < 0

----------------------------------------------------------------------------
(* Properties of the detector's execute, checked under Spec (one caller)   *)
(* and ConcurrentSpec (two callers)                                        *)

Done(c) == calls[c].pc = "done"

HasCharges(c) ==
    /\ Done(c)
    /\ calls[c].result.status = "success"
    /\ calls[c].input.action \in {"getcharges", "isprofitable"}

\* an execute call of caller 1 runs to its return in this step
ExecuteReturns ==
    \/ \E input \in Requests : ExecuteCachedGas(1, input)
    \/ \E g \in GasEstimates : GasFetchOk(1, g)
    \/ GasFetchFail(1)

\* C25: the detector's result cache holds the result returned by the most
\* recent execute call that succeeded; an execute call that returns status
\* "error" leaves the cached result and its timestamp unchanged.
C25_ErrorLeavesCacheUnchanged ==
    [][ExecuteReturns =>
          IF calls'[1].result.status = "success"
          THEN last_result' = calls'[1].result
          ELSE UNCHANGED <<last_result, last_update>>]_vars

\* the charges of a result without the provenance tag of the gas price
ChargeFigures(r) == [r.charges EXCEPT !.gas_fees.gas_source = "live"]

\* the gas cost in USD (4 decimals) at a given APT price
GasUsdAt(gas_unit_price, apt_price) ==
    Round4Money(GasCostUsd(2 * SwapGasUnits * gas_unit_price, apt_price))

\* C2: with two execute calls in flight on one agent, each call's gas USD
\* cost and apt_price_used are computed from the apt_price supplied to that
\* call, never from the other call's.
C2_CallUsesItsOwnAptPrice ==
    \A c \in Callers :
        HasCharges(c) /\ calls[c].input.apt_price # << >> =>
            LET g == calls[c].result.charges.gas_fees
            IN  /\ g.apt_price_used = calls[c].input.apt_price[1]
                /\ g.total_gas_cost_usd =
                       GasUsdAt(g.gas_unit_price_octas,
                                calls[c].input.apt_price[1])

\* C3: two executions with identical input and the same gas-unit price
\* return identical charges and profitability figures, whatever the agent
\* served before or between them.
C3_SameInputSameFigures ==
    \A c, d \in Callers :
        /\ HasCharges(c) /\ HasCharges(d)
        /\ calls[c].input = calls[d].input
        /\ calls[c].result.charges.gas_fees.gas_unit_price_octas
             = calls[d].result.charges.gas_fees.gas_unit_price_octas
        => /\ ChargeFigures(calls[c].result) = ChargeFigures(calls[d].result)
           /\ calls[c].result.profitability = calls[d].result.profitability

\* C4: a getcharges or isprofitable request with a zero or negative trade
\* amount returns an error result, never a success carrying cost figures.
C4_NonPositiveAmountIsRejected ==
    /\ Done(1)
    /\ calls[1].input.action \in {"getcharges", "isprofitable"}
    /\ calls[1].input.trade_amount <= 0
    => calls[1].result.status = "error"

\* C5: for getcharges, isprofitable and possibilities, a zero or negative
\* price in the agent's effective price set makes the call return an error
\* result, not a success.
C5_NonPositivePriceIsRejected ==
    /\ Done(1)
    /\ calls[1].input.action \in {"getcharges", "isprofitable",
                                  "possibilities"}
    /\ \E t \in DOMAIN current_prices : current_prices[t] <= 0
    => calls[1].result.status = "error"

\* the requests on which _calculate_charges divides by a zero trade amount
\* (line 221): directly, under _check_profitability, or on every route of
\* the enumerator
DividesByZero(input) ==
    /\ input.trade_amount = 0
    /\ \/ input.action \in {"getcharges", "isprofitable"}
       \/ /\ input.action = "possibilities"
          /\ available_dexs(input.custom_dex_fees) # << >>

\* C20: every call to execute returns a result value, and any failure
\* inside the computation (here: an unknown action, a division by zero)
\* yields a result with status "error" and an error text.
C20_FailureGivesErrorResult ==
    \A c \in Callers :
        Done(c) =>
            /\ calls[c].result.status \in {"success", "error"}
            /\ calls[c].result.status = "error" =>
                  calls[c].result.error # Absent
            /\ \/ DividesByZero(calls[c].input)
               \/ calls[c].input.action \notin
                     {"getcharges", "isprofitable", "possibilities"}
               => calls[c].result.status = "error"

\* the unrounded total of a charges dict, rebuilt from the percentages, the
\* gas-unit price and the APT price it reports
UnroundedTotal(r) ==
    LET ch == r.charges
        a == r.route.trade_amount
    IN  a * ch.dex_fees.from_dex_fee_percent
        + a * ch.dex_fees.to_dex_fee_percent
        + a * ch.slippage.estimated_slippage_percent
        + GasCostUsd(2 * ch.gas_fees.gas_units_per_swap
                       * ch.gas_fees.gas_unit_price_octas,
                     ch.gas_fees.apt_price_used)

PositivePrices == \A t \in DOMAIN current_prices : current_prices[t] > 0

Example1Returned ==
    /\ Done(1)
    /\ calls[1].input = [DefaultInput EXCEPT !.action = "isprofitable"]
    /\ current_prices = [apt |-> 12450, usdc |-> 1000, usdt |-> 999]
    /\ calls[1].result.status = "success"
    /\ calls[1].result.charges.gas_fees.gas_unit_price_octas = 100

\* C7 as stated: in example 1 (1000 USD, usdc_apt -> usdt_apt, no fees,
\* apt 12.45, gas-unit price 100) the total cost is the gas cost only,
\* 0.0249 USD, and net profit is gross profit minus that amount.
C7_TotalIsGasOnly ==
    Example1Returned =>
        LET r == calls[1].result
        IN  /\ r.charges.total_costs.total_fees_usd = 249
            /\ r.profitability.net_profit_usd
                 = r.profitability.gross_profit_usd - 249

\* C7 amended: in example 1 the trading fees are 0 and the total cost is the
\* gas cost 0.0249 USD plus the slippage cost 0.5 USD (0.05 % of 1000), that
\* is 0.5249 USD; net profit is gross profit minus 0.5249 USD.
C7_TotalIsGasPlusSlippage ==
    Example1Returned =>
        LET r == calls[1].result
        IN  /\ r.charges.dex_fees.total_trading_fees_usd = 0
            /\ r.charges.gas_fees.total_gas_cost_usd = 249
            /\ r.charges.slippage.estimated_slippage_cost_usd = 5000
            /\ r.charges.total_costs.total_fees_usd = 249 + 5000
            /\ r.profitability.net_profit_usd
                 = r.profitability.gross_profit_usd - 5249
            /\ r.profitability.is_profitable

C7_Witness ==
    /\ Example1Returned
    /\ calls[1].result.profitability.gross_profit_usd = 61001

-----------------------------------------------------------------------------
(* The spread model's formulas and range *)

\* the probed call of the spread model: prices, pairs and DEXs
SpreadPrices == probe.args[1]
SpreadFromPair == probe.args[2]
SpreadToPair == probe.args[3]

\* |factor(from_dex) - factor(to_dex)| * 100 in percent units, zero when
\* both DEXs are generic placeholders
ClaimedDexSpread ==
    IF /\ probe.args[4] \in {"dex_a", "dex_b"}
       /\ probe.args[5] \in {"dex_a", "dex_b"}
    THEN 0
    ELSE (Abs(DexPriceFactor(probe.args[4]) - DexPriceFactor(probe.args[5]))
            * 100 * PctScale) \div 1000

\* |x - y| / x * 100 in percent units, times tenths / 10
ClaimedDiffPct(x, y, tenths) ==
    MulDiv(tenths * 10 * PctScale, IF x < y THEN y - x ELSE x - y, x)

\* the spread the documented formulas give for the probed call
ClaimedSpread ==
    LET usdc == SpreadPrices.usdc
        usdt == SpreadPrices.usdt
        capped(x, cap) == IF x > cap THEN cap ELSE x
    IN  IF SpreadFromPair = "usdc_apt" /\ SpreadToPair = "usdt_apt"
        THEN capped(60000 + ClaimedDiffPct(usdt, usdc, 1) + ClaimedDexSpread,
                    300000)
        ELSE IF SpreadFromPair = "usdt_apt" /\ SpreadToPair = "usdc_apt"
        THEN capped(50000 + ClaimedDiffPct(usdc, usdt, 1) + ClaimedDexSpread,
                    300000)
        ELSE IF SpreadFromPair = "apt_usdc" /\ SpreadToPair = "apt_usdt"
        THEN capped(30000 + ClaimedDiffPct(usdc, usdt, 10) + ClaimedDexSpread,
                    200000)
        ELSE IF SpreadFromPair = "apt_usdt" /\ SpreadToPair = "apt_usdc"
        THEN capped(40000 + ClaimedDiffPct(usdt, usdc, 10) + ClaimedDexSpread,
                    200000)
        ELSE IF ClaimedDexSpread = 0 THEN 5000
        ELSE 20000 + ClaimedDexSpread

\* C24: for all-positive prices and a route that is not impossible the
\* spread model returns min(0.6 + 0.1 * rate_diff% + dex_spread, 3.0) for
\* usdc_apt -> usdt_apt, the same with 0.5 for usdt_apt -> usdc_apt,
\* min(0.3 + stablecoin_diff% + dex_spread, 2.0) for apt_usdc -> apt_usdt,
\* the same with 0.4 for apt_usdt -> apt_usdc, and for any other pair
\* combination 0.05 when dex_spread is zero, else 0.2 + dex_spread.
C24_SpreadFormulas ==
    /\ Applied("calculate_price_difference")
    /\ \A t \in DOMAIN SpreadPrices : SpreadPrices[t] > 0
    /\ probe.out # Sentinel
    => probe.out = ClaimedSpread

\* a usdc_apt -> usdt_apt spread between two named DEXs with unequal
\* stablecoin prices
C24_Witness ==
    /\ Applied("calculate_price_difference")
    /\ SpreadFromPair = "usdc_apt" /\ SpreadToPair = "usdt_apt"
    /\ SpreadPrices.usdc = 1020 /\ SpreadPrices.usdt = 999
    /\ SpreadPrices.apt > 0
    /\ probe.args[4] = "pancakeswap" /\ probe.args[5] = "thalaswap"
    /\ probe.out = 60000 + 21021 + 40000

\* C27: for every route and price set the spread model returns the sentinel
\* -999.0 or a numeric spread in [0.05, 3.0]; a numeric spread is never zero
\* or negative.
C27_SentinelOrSpreadInRange ==
    Applied("calculate_price_difference") =>
        \/ probe.out = -999 * PctScale
        \/ probe.out >= 5000 /\ probe.out <= 300000

\* a spread held at the 2.0 % cap
C27_Witness ==
    /\ Applied("calculate_price_difference")
    /\ SpreadFromPair = "apt_usdc" /\ SpreadToPair = "apt_usdt"
    /\ SpreadPrices.usdc = 1020 /\ SpreadPrices.usdt = 980
    /\ probe.out = 200000

-----------------------------------------------------------------------------
(* The enumerator's evaluations and the impossible-route signal *)

\* C28: with all prices positive and a positive trade amount no evaluation
\* issued by the enumerator is rejected as an impossible route: every one of
\* the 4 * n * (n - 1) evaluations yields a success result, also when the
\* DEXs are the placeholders dex_a and dex_b of a "Smart Contract"-only
\* fee schedule.
C28_EnumeratorNeverHitsImpossibleRoute ==
    /\ Applied("find_possibilities")
    /\ \A t \in DOMAIN probe.args[2] : probe.args[2][t] > 0
    /\ probe.args[1].trade_amount > 0
    => LET n == Len(available_dexs(probe.args[1].custom_dex_fees))
       IN  /\ Len(probe.out.evaluations) = 4 * n * (n - 1)
           /\ \A i \in 1..Len(probe.out.evaluations) :
                 /\ probe.out.evaluations[i].result.status = "success"
                 /\ probe.out.evaluations[i].result.error # ImpossibleMsg

\* the eight evaluations between dex_a and dex_b of a "Smart Contract"-only
\* schedule
C28_Witness ==
    /\ Applied("find_possibilities")
    /\ probe.args[1].custom_dex_fees = << <<"Smart Contract", 30000>> >>
    /\ probe.args[1].trade_amount = 1000
    /\ \A t \in DOMAIN probe.args[2] : probe.args[2][t] > 0
    /\ Len(probe.out.evaluations) = 8
    /\ \A i \in 1..8 :
          /\ probe.out.evaluations[i].route.from_dex \in {"dex_a", "dex_b"}
          /\ probe.out.evaluations[i].result.status = "success"

-----------------------------------------------------------------------------
(* Recommendation and risk tier of a profitability result *)

\* C29: in every successful profitability result of the detector, EXECUTE
\* implies that the risk tier is not VERY_HIGH, and a risk tier of LOW or
\* MEDIUM implies EXECUTE.
C29_RecommendationAgreesWithRisk ==
    /\ Applied("check_profitability") /\ probe.out.status = "success" =>
          /\ probe.out.recommendation = "EXECUTE" =>
                probe.out.risk_level # "VERY_HIGH"
          /\ probe.out.risk_level \in {"LOW", "MEDIUM"} =>
                probe.out.recommendation = "EXECUTE"
    \* the same on the two functions, for margins and amounts around every
    \* threshold: a positive amount makes is_profitable the sign of the margin
    /\ Applied("assess_risk_level") /\ probe.args[2] > 0 =>
          LET verdict == Recommendation(probe.args[1] > 0, probe.args[1])
          IN  /\ verdict = "EXECUTE" => probe.out # "VERY_HIGH"
              /\ probe.out \in {"LOW", "MEDIUM"} => verdict = "EXECUTE"

\* a MEDIUM-risk result that is recommended
C29_Witness ==
    /\ Applied("check_profitability")
    /\ probe.out.status = "success"
    /\ probe.out.risk_level = "MEDIUM"
    /\ probe.out.recommendation = "EXECUTE"
    /\ probe.out.profitability.profit_margin_percent < 10000

-----------------------------------------------------------------------------
(* The impossible-route signal at the callers of the profitability check *)

\* the spread of the probed isprofitable route
ProbedSpread ==
    calculate_price_difference(probe.args[2], probe.args[1].from_pair,
        probe.args[1].to_pair, route_from_dex(probe.args[1]),
        route_to_dex(probe.args[1]))

\* the spread model signals an impossible route for a route the handler
\* builds from the probed request
HandlerRouteImpossible ==
    \E i \in 1..Len(tokens_to_check(probe.args[1])) :
        LET input == handler_input(probe.args[1],
                                   tokens_to_check(probe.args[1])[i])
        IN  calculate_price_difference(
                ExecutePrices(input, probe.args[2]), input.from_pair,
                input.to_pair, route_from_dex(input), route_to_dex(input))
              = Sentinel

\* C22: whenever the spread model signals an impossible route, the caller of
\* the profitability check (the isprofitable action, and the
\* /arbitrage/isprofitable handler built on it) receives an error that names
\* the impossible arbitrage and echoes the route, never a success result or
\* a SKIP verdict.
C22_ImpossibleRouteIsReportedToCaller ==
    /\ Applied("check_profitability") /\ ProbedSpread = Sentinel =>
          /\ probe.out.status = "error"
          /\ probe.out.error = ImpossibleMsg
          /\ probe.out.route = Route(probe.args[1])
    /\ Applied("is_arbitrage_profitable") /\ HandlerRouteImpossible =>
          /\ probe.out.status = "error"
          /\ probe.out.error = ImpossibleMsg
          /\ probe.out.route # NoRoute

-----------------------------------------------------------------------------
(* The stored market data, checked under MarketSpec *)

\* the fetch of caller c returns in this step
FetchReturns(c) == fetches[c].pc = "fetching" /\ fetches'[c].pc = "done"

\* the outcome of the fetch was a live result with status "success"
LiveSuccess(f) ==
    f.outcome.kind = "result" /\ f.outcome.result.status = "success"

\* a dict without the three keys _get_stored_with_note sets
Untagged(data) ==
    [data EXCEPT !.data_source = Absent, !.note = Absent,
                 !.last_successful_fetch_seconds_ago = NoKey]

\* C26: fetch_live_market_data replaces stored_market_data and advances
\* last_successful_fetch only when the live fetch returns status "success";
\* on a timeout, a non-success result or an exception it returns the stored
\* data tagged "stored_fallback" with a note and leaves both fields
\* unchanged.  So the stored data is always the initial fallback or the
\* result of the latest successful fetch.
C26_StoredDataChangesOnlyOnSuccess ==
    /\ [](\/ /\ stored_market_data = InitialStoredData
             /\ last_successful_fetch = 0
          \/ /\ stored_market_data \in MarketResults
             /\ stored_market_data.status = "success"
             /\ last_successful_fetch > 0)
    /\ [][/\ \A c \in Callers : FetchReturns(c) =>
                IF LiveSuccess(fetches'[c])
                THEN /\ stored_market_data' = fetches'[c].outcome.result
                     /\ last_successful_fetch' = now
                     /\ fetches'[c].returned = fetches'[c].outcome.result
                ELSE /\ UNCHANGED <<stored_market_data, last_successful_fetch>>
                     /\ fetches'[c].returned.data_source = "stored_fallback"
                     /\ fetches'[c].returned.note # Absent
                     /\ Untagged(fetches'[c].returned)
                          = Untagged(stored_market_data)
          /\ (\A c \in Callers : ~FetchReturns(c)) =>
                UNCHANGED <<stored_market_data, last_successful_fetch>>]_vars

\* after a successful fetch, a later fetch timed out and returned the stored
\* live data as a fallback
C26_Witness ==
    \E c \in Callers :
        /\ fetches[c].pc = "done"
        /\ fetches[c].outcome.kind = "timeout"
        /\ fetches[c].returned.data_source = "stored_fallback"
        /\ fetches[c].returned.last_successful_fetch_seconds_ago
              = [seconds |-> TickSeconds]
        /\ stored_market_data.data_source = "live"
        /\ last_successful_fetch > 0

-----------------------------------------------------------------------------
(* BaseAgent's result cache, checked under CacheSpec *)

\* self.cache_duration, seconds
CacheDuration == 30

\* the clock of CacheSpec advances in steps of a third of the cache duration
CacheTickSeconds == CacheDuration \div 3

\* number of clock steps of CacheSpec
CacheMaxTicks == 6

is_cache_valid_inclusive(t, updated) == t - updated <= CacheDuration

\* BaseAgent.is_cache_valid at clock reading t
is_cache_valid(t, updated) == t - updated < CacheDuration

\* BaseAgent.get_cached_result at clock reading t
get_cached_result(t, result, updated) ==
    IF is_cache_valid(t, updated) THEN result ELSE None

\* results handed to cache_result
CacheSamples == {[status |-> "success", timestamp |-> k] : k \in 1..2}

CacheUnchanged ==
    UNCHANGED <<current_prices, cached_gas_price, gas_price_timestamp,
                calls, OptimizerVars,
                AppVars>>

\* BaseAgent.cache_result(result)
CacheResult ==
    /\ \E result \in CacheSamples :
          /\ last_result' = result
          /\ last_update' = now
    /\ UNCHANGED <<now, probe>>
    /\ CacheUnchanged

\* a caller reads the cache; the read is recorded with the clock reading and
\* the cache fields it was made against
GetCachedResult ==
    /\ probe' = [fn |-> "get_cached_result", done |-> TRUE, at |-> now,
                 stored |-> last_result, stored_at |-> last_update,
                 out |-> get_cached_result(now, last_result, last_update)]
    /\ UNCHANGED <<last_result, last_update, now>>
    /\ CacheUnchanged

CacheTick ==
    /\ now < Epoch + CacheMaxTicks * CacheTickSeconds
    /\ now' = now + CacheTickSeconds
    /\ UNCHANGED <<last_result, last_update, probe>>
    /\ CacheUnchanged

CacheNext == CacheResult \/ GetCachedResult \/ CacheTick

CacheSpec == Init /\ [][CacheNext]_vars

\* C21: get_cached_result returns the most recently cached result exactly
\* while fewer than 30 seconds have elapsed since cache_result stored it, and
\* None otherwise: None before anything was cached, None once the entry is
\* 30 seconds old or older.
C21_CachedResultWithinThirtySeconds ==
    Applied("get_cached_result") =>
        /\ probe.stored = NoResult => probe.out = None
        /\ probe.stored # NoResult /\ probe.at - probe.stored_at < 30 =>
              probe.out = probe.stored
        /\ probe.stored # NoResult /\ probe.at - probe.stored_at >= 30 =>
              probe.out = None

\* a read of an entry that is exactly 30 seconds old
C21_Witness ==
    /\ Applied("get_cached_result")
    /\ probe.stored \in CacheSamples
    /\ probe.at - probe.stored_at = 30
    /\ probe.out = None

====
